---------------------------- MODULE Spec2Model ----------------------------
(***************************************************************************)
(* A model of pypopquiz: the interval utilities (io.py), the two video     *)
(* backends (backends/ffmpeg.py, backends/moviepy.py) and the clip         *)
(* assembly that drives them (video.py).                                   *)
(*                                                                         *)
(* Three specifications share the variables:                               *)
(*   SpecUtil     calls of the pure utility functions on bounded inputs    *)
(*   SpecBackend  single backend operations on freshly opened streams      *)
(*   Spec         the clip assembly functions of video.py, run to the end  *)
(***************************************************************************)
EXTENDS Integers, Sequences, FiniteSets, TLC

(***************************************************************************)
(* Bounds of the model.                                                    *)
(***************************************************************************)
\* largest minute count written in an "M:SS" string
MaxMin == 4
\* largest end point, in seconds, of an integer interval passed directly
MaxT == 4
\* small frame dimensions 1..MaxDim, next to the sizes of the unit tests
MaxDim == 6
\* the duration of a source file, in seconds
MaxDur == 2
\* repeat() calls in a row
MaxRepeats == 2
\* the repetitions handed to repeat_stream
MaxRep == 6
\* the crossfade duration of a combine, in seconds
MaxCf == 2

\* clips in a list of question_video, question_audio, answer_video, answer_audio
MaxSegs == 2
\* texts in one entry of answer_texts
MaxAnswers == 3
\* the duration of the files in the sources folder, in seconds
SrcDur == 10

\* popquiz.py: the defaults of --width and --height
DefaultWidth == 1280
DefaultHeight == 720
\* video.py: fade_amount_s of filter_stream_video
FadeAmount == 3
\* video.py: delay_answer_text_s of filter_stream_video
DelayAnswerText == 3
\* video.py: the duration of the spacer and of the silence under it
SpacerDuration == 4

(***************************************************************************)
(* Python values: results and exceptions.                                  *)
(***************************************************************************)
Ret(v) == [exc |-> "none", val |-> v]
Raise(e) == [exc |-> e, val |-> <<>>]
\* the value of r goes on into F unless r is an exception, which goes up
Then(r, F(_)) == CHOOSE out \in {IF x.exc # "none" THEN x ELSE F(x.val) : x \in {r}} : TRUE

Min(a, b) == IF a <= b THEN a ELSE b
Max(a, b) == IF a >= b THEN a ELSE b

(***************************************************************************)
(* Strings are sequences of one-character strings.                         *)
(***************************************************************************)
Digits == <<"0", "1", "2", "3", "4", "5", "6", "7", "8", "9">>
DigitChars == {Digits[i] : i \in 1..10}
DigitChar(d) == Digits[d + 1]
DigitVal(c) == CHOOSE d \in 0..9 : Digits[d + 1] = c

\* what the author of the quiz specification writes: "{M}:{SS}"
RECURSIVE DecStr(_)
DecStr(n) == IF n < 10 THEN <<DigitChar(n)>>
             ELSE DecStr(n \div 10) \o <<DigitChar(n % 10)>>
TimeStr(m, ss) == DecStr(m) \o <<":">> \o <<DigitChar(ss \div 10), DigitChar(ss % 10)>>

\* str.split(sep)
RECURSIVE split(_, _)
split(s, sep) ==
    IF s = <<>> THEN << <<>> >>
    ELSE LET rest == split(Tail(s), sep)
         IN  IF Head(s) = sep THEN << <<>> >> \o rest
             ELSE << <<Head(s)>> \o rest[1] >> \o Tail(rest)

\* s[:n]
Prefix(s, n) == SubSeq(s, 1, Min(n, Len(s)))

\* str.strip() of blanks, as int() does before it reads the digits
RECURSIVE lstrip(_)
lstrip(s) == IF s # <<>> /\ Head(s) = " " THEN lstrip(Tail(s)) ELSE s
RECURSIVE rstrip(_)
rstrip(s) == IF s # <<>> /\ s[Len(s)] = " " THEN rstrip(SubSeq(s, 1, Len(s) - 1)) ELSE s

RECURSIVE DigitsVal(_)
DigitsVal(s) == IF s = <<>> THEN 0
                ELSE DigitsVal(SubSeq(s, 1, Len(s) - 1)) * 10 + DigitVal(s[Len(s)])

\* int(str): ValueError unless the stripped text is a non-empty run of digits
int(s) ==
    LET t == rstrip(lstrip(s))
    IN  IF t = <<>> \/ \E i \in 1..Len(t) : t[i] \notin DigitChars
        THEN Raise("ValueError")
        ELSE Ret(DigitsVal(t))

(***************************************************************************)
(* io.py: interval utilities.                                              *)
(***************************************************************************)
\* the minutes factor of get_interval_in_s
SecondsPerMinute == 60

\* one end of get_interval_in_s:
\*   int(x.split(":")[0]) * 60 + int(x.split(":")[1][:2])
C1_mut_end_in_s(x) ==
    LET parts == split(x, ":")
    IN  Then(int(parts[1]), LAMBDA minutes :
            IF Len(parts) < 2 THEN Raise("IndexError")
            ELSE Then(int(Prefix(parts[2], 1)), LAMBDA seconds :
                     Ret(minutes * SecondsPerMinute + seconds)))
end_in_s(x) ==
    LET parts == split(x, ":")
    IN  Then(int(parts[1]), LAMBDA minutes :
            IF Len(parts) < 2 THEN Raise("IndexError")
            ELSE Then(int(Prefix(parts[2], 2)), LAMBDA seconds :
                     Ret(minutes * SecondsPerMinute + seconds)))

get_interval_in_s(interval) ==
    Then(end_in_s(interval[1]), LAMBDA a :
        Then(end_in_s(interval[2]), LAMBDA b : Ret(<<a, b>>)))

get_interval_duration(interval) ==
    Then(get_interval_in_s(interval), LAMBDA interval_s : Ret(interval_s[2] - interval_s[1]))

(***************************************************************************)
(* video.py: get_interval_length.                                          *)
(***************************************************************************)
C2_mut_get_interval_length(interval) ==
    IF interval[2] < interval[1] THEN Raise("ValueError")
    ELSE Ret(interval[2] - interval[1])
get_interval_length(interval) ==
    IF interval[2] <= interval[1] THEN Raise("ValueError")
    ELSE Ret(interval[2] - interval[1])

(***************************************************************************)
(* backends/moviepy.py: get_scaled_size.                                   *)
(*                                                                         *)
(* The factors are Python floats.  A quotient n/d is exact when its        *)
(* reduced denominator is a power of two; the product x * (n/d) is then    *)
(* exact too and int() truncates it.  An inexact quotient is off by one    *)
(* rounding step, which only matters to int() when the true product is an  *)
(* integer k: the float is then k or the float just below it, and int()    *)
(* yields k or k - 1.  Both outcomes are kept.                             *)
(***************************************************************************)
RECURSIVE GCD(_, _)
GCD(a, b) == IF b = 0 THEN a ELSE GCD(b, a % b)
RECURSIVE IsPow2(_)
IsPow2(n) == IF n = 1 THEN TRUE ELSE IF n % 2 = 1 THEN FALSE ELSE IsPow2(n \div 2)
ExactFloat(n, d) == IsPow2(d \div GCD(n, d))

\* the possible values of int(x * (n / d))
IntOfProduct(x, n, d) ==
    IF (x * n) % d = 0 /\ ~ExactFloat(n, d)
    THEN {(x * n) \div d, (x * n) \div d - 1}
    ELSE {(x * n) \div d}

\* the possible results of get_scaled_size
C3_mut_get_scaled_size(w_in, h_in, max_w_out, max_h_out) ==
    IF w_in = max_w_out /\ h_in = max_h_out THEN {<<w_in, h_in>>}
    ELSE LET w_first == max_w_out * h_in >= max_h_out * w_in
             n == IF w_first THEN max_w_out ELSE max_h_out
             d == IF w_first THEN w_in ELSE h_in
         IN  {<<w, h>> : w \in IntOfProduct(w_in, n, d), h \in IntOfProduct(h_in, n, d)}
get_scaled_size(w_in, h_in, max_w_out, max_h_out) ==
    IF w_in = max_w_out /\ h_in = max_h_out THEN {<<w_in, h_in>>}
    ELSE \* scale_factor = min(max_w_out / w_in, max_h_out / h_in), kept as n / d
         LET w_first == max_w_out * h_in <= max_h_out * w_in
             n == IF w_first THEN max_w_out ELSE max_h_out
             d == IF w_first THEN w_in ELSE h_in
         IN  {<<w, h>> : w \in IntOfProduct(w_in, n, d), h \in IntOfProduct(h_in, n, d)}

(***************************************************************************)
(* Streams.                                                                *)
(*                                                                         *)
(* A media handle (an ffmpeg filter-graph node, a moviepy clip) is kept as *)
(* its kind (a video or an audio clip), its duration in seconds, its frame *)
(* size, the pieces it plays in order and, for a moviepy video clip, the   *)
(* audio track attached to it (<<>> for clip.audio = None).  A stream      *)
(* holds stream_v and stream_a (FFMpeg) or clip (Moviepy), next to the     *)
(* fields of Backend.                                                      *)
(***************************************************************************)
None == [some |-> FALSE, kind |-> "none", dur |-> 0, size |-> <<0, 0>>,
         content |-> <<>>, audio |-> <<>>, filters |-> <<>>]
Track(dur, content) == [dur |-> dur, content |-> content]
VideoMedia(dur, size, content, audio) ==
    [some |-> TRUE, kind |-> "video", dur |-> dur, size |-> size,
     content |-> content, audio |-> audio, filters |-> <<>>]
AudioMedia(dur, content) ==
    [some |-> TRUE, kind |-> "audio", dur |-> dur, size |-> <<0, 0>>,
     content |-> content, audio |-> <<>>, filters |-> <<>>]

\* a keyword argument: not passed, or passed with a value
Absent == <<>>
Given(v) == <<v>>

\* a path: its name and its suffix
Path(name, suffix) == [name |-> name, suffix |-> suffix]
NoPath == Path("", "")

\* The disk as a run sees it: the file at the output path ("absent", "old"
\* from an earlier run, "new" from this one), the temporary directory
\* ("none", "made", "removed"), what was done to them in order, the readers
\* closed so far, the path run returned, the readers whose close() raises
\* and those whose close() has raised.
Disk(exists) ==
    [out |-> IF exists THEN "old" ELSE "absent", tmp |-> "none", events |-> <<>>,
     closed |-> {}, file_name_out |-> NoPath, failing |-> {}, close_raised |-> {}]

\* the readers whose close() raises, as the run finds them
FailingReaders == {{}, {1}, {2}}

\* The heap of a run: the streams made so far (a stream's id is its index),
\* the backend calls made so far, the exception that ended the run, and the
\* disk.
EmptyHeap == [streams |-> <<>>, calls |-> <<>>, exc |-> "none", disk |-> Disk(FALSE)]

Called(h, id, op, args, e) ==
    Append(h.calls, [op |-> op, target |-> id,
                     has_video |-> h.streams[id].has_video,
                     has_audio |-> h.streams[id].has_audio,
                     absorbed |-> h.streams[id].absorbed,
                     args |-> args, exc |-> e])

\* the call returned: the receiver is now s
Returned(h, id, op, args, s) ==
    [h EXCEPT !.streams = [h.streams EXCEPT ![id] = s],
              !.calls = Called(h, id, op, args, "none"),
              !.exc = "none"]

\* the call raised e, leaving the receiver as s
Raised(h, id, op, args, s, e) ==
    [h EXCEPT !.streams = [h.streams EXCEPT ![id] = s],
              !.calls = Called(h, id, op, args, e),
              !.exc = e]

\* the receiver has no such method, or the method no such keyword
Unsupported(h, id, op, args, e) == Raised(h, id, op, args, h.streams[id], e)

\* an operation is skipped once an exception is on its way up: the heap h0
\* stays as it is, else it becomes F(h0)
Do(h0, F(_)) == CHOOSE r \in {IF h.exc # "none" THEN h ELSE F(h) : h \in {h0}} : TRUE

\* the value of r goes on into F; an exception r raises ends the run in h0
Try(h0, r, F(_)) ==
    Do(h0, LAMBDA h :
        CHOOSE out \in {IF x.exc # "none" THEN [h EXCEPT !.exc = x.exc] ELSE F(x.val) : x \in {r}} :
            TRUE)

\* a call on the class: no receiver
ClassCalled(h, op, args, e) ==
    [h EXCEPT !.calls = Append(@, [op |-> op, target |-> 0, has_video |-> FALSE,
                                   has_audio |-> FALSE, absorbed |-> FALSE,
                                   args |-> args, exc |-> e]),
              !.exc = e]

(***************************************************************************)
(* Backend.__init__, FFMpeg.__init__, Moviepy.__init__                     *)
(***************************************************************************)
\* a file on disk
SourceFile(name, suffix, dur, size) ==
    [name |-> name, suffix |-> suffix, is_file |-> TRUE, dur |-> dur, size |-> size]
\* Path(''): no file
NoFile == [name |-> "", suffix |-> "", is_file |-> FALSE, dur |-> 0, size |-> <<0, 0>>]

Backend_init(backend, has_video, has_audio, width, height) ==
    [backend |-> backend, has_video |-> has_video, has_audio |-> has_audio,
     width |-> width, height |-> height,
     stream_v |-> None, stream_a |-> None, clip |-> None,
     reader_refs |-> <<>>, absorbed |-> FALSE]

\* FFMpeg(source_file, has_video, has_audio, width, height, **kwargs); t is
\* the keyword that limits the input's duration
FFMpeg_init(id, source_file, has_video, has_audio, width, height, t) ==
    LET dur == IF t = Absent THEN source_file.dur ELSE t[1]
    IN  [Backend_init("ffmpeg", has_video, has_audio, width, height) EXCEPT
            !.stream_v = IF has_video
                         THEN VideoMedia(dur, source_file.size, <<source_file.name>>, <<>>)
                         ELSE None,
            !.stream_a = IF has_audio
                         THEN AudioMedia(dur, <<source_file.name>>)
                         ELSE None]

\* Moviepy(source_file, has_video, has_audio, width, height, duration)
C9_mut_Moviepy_init(id, source_file, has_video, has_audio, width, height, duration) ==
    [Backend_init("moviepy", has_video, has_audio, width, height) EXCEPT
        !.clip = VideoMedia(IF duration = Absent THEN source_file.dur ELSE duration[1],
                            <<width, height>>, <<source_file.name>>, <<>>)]
Moviepy_init(id, source_file, has_video, has_audio, width, height, duration) ==
    LET base == Backend_init("moviepy", has_video, has_audio, width, height)
        audio_input_file == source_file.suffix \in {".mp3", ".wav"}
        image_input_file == source_file.suffix \in {".png", ".jpg"}
        file_track == <<Track(source_file.dur, <<source_file.name>>)>>
        color_clip(d, audio) == VideoMedia(d, <<width, height>>, <<source_file.name>>, audio)
    IN  IF has_video THEN
            IF audio_input_file THEN
                \* a black clip with the audio file pasted on top
                [base EXCEPT !.clip = color_clip(source_file.dur, file_track),
                             !.reader_refs = <<id>>]
            ELSE IF image_input_file THEN
                [base EXCEPT !.clip = VideoMedia(duration[1], source_file.size,
                                                 <<source_file.name>>, <<>>)]
            ELSE \* VideoFileClip(source_file, audio=has_audio)
                [base EXCEPT !.clip = VideoMedia(source_file.dur, source_file.size,
                                                 <<source_file.name>>,
                                                 IF has_audio THEN file_track ELSE <<>>),
                             !.reader_refs = <<id>>]
        ELSE IF has_audio THEN
            IF source_file.is_file THEN
                [base EXCEPT !.clip = AudioMedia(source_file.dur, <<source_file.name>>),
                             !.reader_refs = <<id>>]
            ELSE \* a black clip without audio
                [base EXCEPT !.clip = color_clip(duration[1], <<>>)]
        ELSE \* blank video
            [base EXCEPT !.clip = color_clip(duration[1], <<>>), !.has_video = TRUE]

\* backend_cls(source_file, ...): the new stream's id is Len(streams) + 1
New(h0, backend, source_file, has_video, has_audio, width, height, duration) ==
    Do(h0, LAMBDA h :
        LET id == Len(h.streams) + 1
                 s == IF backend = "ffmpeg"
                      THEN FFMpeg_init(id, source_file, has_video, has_audio, width, height, duration)
                      ELSE Moviepy_init(id, source_file, has_video, has_audio, width, height, duration)
                 h1 == [h EXCEPT !.streams = Append(@, s)]
             IN  [h1 EXCEPT !.calls = Called(h1, id, "__init__", <<source_file.name>>, "none")])

\* the id of the stream made last
Newest(h) == Len(h.streams)

(***************************************************************************)
(* What the libraries do with two handles.                                 *)
(***************************************************************************)
\* the audio of a concatenation: the tracks of the clips that have one
JoinedAudio(a, b) ==
    IF a.audio = <<>> /\ b.audio = <<>> THEN <<>>
    ELSE <<Track(a.dur + b.dur,
                 (IF a.audio = <<>> THEN <<>> ELSE a.audio[1].content)
                 \o (IF b.audio = <<>> THEN <<>> ELSE b.audio[1].content))>>

\* ffmpeg.concat(a, b), concatenate_videoclips([a, b]), concatenate_audioclips([a, b])
Joined(a, b) ==
    [a EXCEPT !.dur = a.dur + b.dur,
              !.content = a.content \o b.content,
              !.audio = JoinedAudio(a, b),
              !.filters = a.filters \o b.filters]

\* the composite of a and b, b starting before a ends, with the duration the
\* code assigns: a.duration + b.duration - crossfade_duration
Crossfaded(a, b, crossfade_duration) ==
    [a EXCEPT !.dur = a.dur + b.dur - crossfade_duration,
              !.content = a.content \o b.content,
              !.audio = JoinedAudio(a, b),
              !.filters = a.filters \o b.filters]

\* concat of a handle with itself
C6_mut_Doubled(m) == [Joined(m, m) EXCEPT !.dur = m.dur + 1]
Doubled(m) == Joined(m, m)

(***************************************************************************)
(* trim                                                                    *)
(***************************************************************************)
\* ffmpeg's trim and atrim keep [start, end) and setpts restarts at 0; the
\* filters are only described here, nothing compares start with end
FFMpeg_trimmed(m, start_s, end_s) == [m EXCEPT !.dur = Max(0, Min(end_s, @) - start_s)]
FFMpeg_trim(h, id, start_s, end_s) ==
    LET s == h.streams[id]
    IN  Returned(h, id, "trim", <<start_s, end_s>>,
            [s EXCEPT !.stream_v = IF s.has_video THEN FFMpeg_trimmed(@, start_s, end_s) ELSE @,
                      !.stream_a = IF s.has_audio THEN FFMpeg_trimmed(@, start_s, end_s) ELSE @])

\* clip.subclip(start_s, end_s): the new duration is end_s - start_s; moviepy
\* refuses only a start beyond the clip's end
Moviepy_trim(h, id, start_s, end_s) ==
    LET s == h.streams[id]
    IN  IF start_s > s.clip.dur
        THEN Raised(h, id, "trim", <<start_s, end_s>>, s, "ValueError")
        ELSE Returned(h, id, "trim", <<start_s, end_s>>,
                      [s EXCEPT !.clip.dur = end_s - start_s,
                                !.clip.audio = IF @ = <<>> THEN @
                                               ELSE <<[@[1] EXCEPT !.dur = end_s - start_s]>>])

trim(h0, id, start_s, end_s) ==
    Do(h0, LAMBDA h :
        IF h.streams[id].backend = "ffmpeg" THEN FFMpeg_trim(h, id, start_s, end_s)
        ELSE Moviepy_trim(h, id, start_s, end_s))

(***************************************************************************)
(* repeat                                                                  *)
(***************************************************************************)
FFMpeg_repeat(h, id) ==
    LET s == h.streams[id]
    IN  Returned(h, id, "repeat", <<>>,
            [s EXCEPT !.stream_v = IF s.has_video THEN Doubled(@) ELSE @,
                      !.stream_a = IF s.has_audio THEN Doubled(@) ELSE @])

\* concatenate_videoclips([clip, clip]) if has_video, else
\* concatenate_audioclips([clip, clip]), which reads nchannels: a video clip
\* has none
Moviepy_repeat(h, id) ==
    LET s == h.streams[id]
    IN  IF ~s.has_video /\ s.clip.kind # "audio"
        THEN Raised(h, id, "repeat", <<>>, s, "AttributeError")
        ELSE Returned(h, id, "repeat", <<>>, [s EXCEPT !.clip = Doubled(@)])

repeat(h0, id) ==
    Do(h0, LAMBDA h :
        IF h.streams[id].backend = "ffmpeg" THEN FFMpeg_repeat(h, id)
        ELSE Moviepy_repeat(h, id))

(***************************************************************************)
(* video.py: repeat_stream                                                 *)
(***************************************************************************)
RECURSIVE Times(_, _, _)
Times(h, id, n) == IF n <= 0 THEN h ELSE Times(repeat(h, id), id, n - 1)

RaiseIn(h0, e) == Do(h0, LAMBDA h : [h EXCEPT !.exc = e])

C5_mut_repeat_stream(h, id, repetitions) ==
    IF repetitions = 1 THEN h
    ELSE IF repetitions % 2 = 0 THEN Times(h, id, repetitions)
    ELSE RaiseIn(h, "RuntimeError")
repeat_stream(h0, id, repetitions) ==
    Do(h0, LAMBDA h :
        IF repetitions = 1 THEN h
        ELSE IF repetitions % 2 = 0 THEN Times(h, id, repetitions \div 2)
        ELSE RaiseIn(h, "RuntimeError"))

(***************************************************************************)
(* combine                                                                 *)
(***************************************************************************)
Absorb(h, other) == [h EXCEPT !.streams[other].absorbed = TRUE]

\* FFMpeg.combine(other, other_first=False): no crossfade_duration keyword.
\* Each channel self has is concatenated; a stream_v or stream_a that is
\* None has no filter method.
FFMpeg_combine(h, id, other, other_first, crossfade_duration) ==
    LET args == <<other, other_first, crossfade_duration>>
        s == h.streams[id]
        first_stream == IF other_first THEN h.streams[other] ELSE s
        second_stream == IF other_first THEN s ELSE h.streams[other]
        s1 == [s EXCEPT !.stream_v = IF s.has_video
                                     THEN Joined(first_stream.stream_v, second_stream.stream_v)
                                     ELSE @]
        s2 == [s1 EXCEPT !.stream_a = IF s.has_audio
                                      THEN Joined(first_stream.stream_a, second_stream.stream_a)
                                      ELSE @]
    IN  IF crossfade_duration # Absent THEN Unsupported(h, id, "combine", args, "TypeError")
        ELSE IF s.has_video /\ ~(first_stream.stream_v.some /\ second_stream.stream_v.some)
        THEN Raised(h, id, "combine", args, s, "AttributeError")
        ELSE IF s.has_audio /\ ~(first_stream.stream_a.some /\ second_stream.stream_a.some)
        THEN Raised(h, id, "combine", args, s1, "AttributeError")
        ELSE Absorb(Returned(h, id, "combine", args, s2), other)

\* Moviepy.combine(other, other_first=False, crossfade_duration=0)
Moviepy_combine(h, id, other, other_first, crossfade_duration) ==
    LET args == <<other, other_first, crossfade_duration>>
        cf == IF crossfade_duration = Absent THEN 0 ELSE crossfade_duration[1]
        o == h.streams[other]
        s == [h.streams[id] EXCEPT !.reader_refs = @ \o o.reader_refs]
        clips == IF other_first THEN <<o.clip, s.clip>> ELSE <<s.clip, o.clip>>
        \* where clips[1] of the code is made to start
        start == Max(0, clips[1].dur - cf)
        note == <<other, other_first, crossfade_duration, start>>
    IN  IF s.has_video /\ o.has_video THEN
            IF cf = 0
            THEN Absorb(Returned(h, id, "combine", args, [s EXCEPT !.clip = Joined(clips[1], clips[2])]),
                        other)
            ELSE Absorb(Returned(h, id, "combine", note,
                                 [s EXCEPT !.clip = Crossfaded(clips[1], clips[2], cf)]), other)
        ELSE IF cf = 0 THEN
            IF s.has_video \/ o.has_video
            THEN Raised(h, id, "combine", args, s, "AssertionError")
            ELSE IF clips[1].kind # "audio" \/ clips[2].kind # "audio"
            THEN Raised(h, id, "combine", args, s, "AttributeError")
            ELSE Absorb(Returned(h, id, "combine", args, [s EXCEPT !.clip = Joined(clips[1], clips[2])]),
                        other)
        ELSE \* CompositeAudioClip reads nchannels: a video clip has none
            IF clips[1].kind # "audio" \/ clips[2].kind # "audio"
            THEN Raised(h, id, "combine", args, s, "AttributeError")
            ELSE Absorb(Returned(h, id, "combine", note,
                                 [s EXCEPT !.clip = Crossfaded(clips[1], clips[2], cf)]), other)

combine(h0, id, other, other_first, crossfade_duration) ==
    Do(h0, LAMBDA h :
        IF h.streams[id].backend = "ffmpeg"
        THEN FFMpeg_combine(h, id, other, other_first, crossfade_duration)
        ELSE Moviepy_combine(h, id, other, other_first, crossfade_duration))

(***************************************************************************)
(* fade_in_and_out, reverse: filters that keep duration and size           *)
(***************************************************************************)
fade_in_and_out(h0, id, duration_s, video_length_s) ==
    Do(h0, LAMBDA h :
        Returned(h, id, "fade_in_and_out", <<duration_s, video_length_s>>, h.streams[id]))

reverse(h0, id) ==
    Do(h0, LAMBDA h :
        Returned(h, id, "reverse", <<>>, h.streams[id]))

(***************************************************************************)
(* scale_video                                                             *)
(***************************************************************************)
\* the filters scale, pad and setsar are put on stream_v at every call
FFMpeg_scale_video(h, id) ==
    LET s == h.streams[id]
    IN  IF ~s.has_video THEN Returned(h, id, "scale_video", <<>>, s)
        ELSE Returned(h, id, "scale_video", <<>>,
                      [s EXCEPT !.stream_v.size = <<s.width, s.height>>,
                                !.stream_v.filters = @ \o <<"scale", "pad", "setsar">>])

\* the scaled clip is pasted on a black clip of (width, height), unless the
\* clip has that size already
Moviepy_scale_video(h, id) ==
    LET s == h.streams[id]
    IN  IF ~s.has_video THEN Raised(h, id, "scale_video", <<>>, s, "AssertionError")
        ELSE IF s.clip.size = <<s.width, s.height>> THEN Returned(h, id, "scale_video", <<>>, s)
        ELSE Returned(h, id, "scale_video", <<>>,
                      [s EXCEPT !.clip.size = <<s.width, s.height>>,
                                !.clip.filters = @ \o <<"resize", "composite">>])

scale_video(h0, id) ==
    Do(h0, LAMBDA h :
        IF h.streams[id].backend = "ffmpeg" THEN FFMpeg_scale_video(h, id)
        ELSE Moviepy_scale_video(h, id))

(***************************************************************************)
(* draw_text_in_box, draw_text                                             *)
(***************************************************************************)
\* round(n / d) of Python for d > 0: to the nearest integer, halves to even
RoundDiv(n, d) ==
    LET q == n \div d
        r == n % d
    IN  IF 2 * r < d THEN q
        ELSE IF 2 * r > d THEN q + 1
        ELSE IF q % 2 = 0 THEN q ELSE q + 1

\* moviepy.py: txt_left_margin of a text that is not centred
TxtLeftMargin == 20

\* the widths text_w / txt.w a rendered text may have, in pixels
TextWidths == {100, 400}

\* FFMpeg.draw_text_in_box: x_location_text, the drawtext expression
\* "width * t / length" or "width // 2 - text_w / 2", at t seconds, in whole
\* pixels
FFMpeg_x_location_text(width, length, move, text_w, t) ==
    IF move THEN (width * t) \div length
    ELSE width \div 2 - text_w \div 2

\* Moviepy.draw_text_in_box_on_video with center=False: the x of
\* txt.set_position at t seconds
Moviepy_txt_position(video_w, length, move, t) ==
    IF move THEN Max(TxtLeftMargin, RoundDiv(video_w * length - video_w * t, length))
    ELSE TxtLeftMargin

\* FFMpeg.draw_text_in_box(video_text, length, move, top): no delay_in_sec
FFMpeg_draw_text_in_box(h, id, video_text, length, move, top, delay_in_sec) ==
    LET args == <<video_text, length, move, top, delay_in_sec>>
    IN  IF delay_in_sec # Absent THEN Unsupported(h, id, "draw_text_in_box", args, "TypeError")
        ELSE Returned(h, id, "draw_text_in_box", args, h.streams[id])

Moviepy_draw_text_in_box(h, id, video_text, length, move, top, delay_in_sec) ==
    LET args == <<video_text, length, move, top, delay_in_sec>>
        s == h.streams[id]
    IN  IF ~s.has_video THEN Raised(h, id, "draw_text_in_box", args, s, "AssertionError")
        ELSE Returned(h, id, "draw_text_in_box", args, s)

draw_text_in_box(h0, id, video_text, length, move, top, delay_in_sec) ==
    Do(h0, LAMBDA h :
        IF h.streams[id].backend = "ffmpeg"
        THEN FFMpeg_draw_text_in_box(h, id, video_text, length, move, top, delay_in_sec)
        ELSE Moviepy_draw_text_in_box(h, id, video_text, length, move, top, delay_in_sec))

\* height_fraction is kept in tenths.
\* FFMpeg.draw_text(video_text, height_fraction): no interval keyword
FFMpeg_draw_text(h, id, video_text, height_tenths, interval) ==
    LET args == <<video_text, height_tenths, interval>>
        s == h.streams[id]
    IN  IF interval # Absent THEN Unsupported(h, id, "draw_text", args, "TypeError")
        ELSE IF ~s.has_video THEN Returned(h, id, "draw_text", args, s)
        ELSE IF ~(0 <= height_tenths /\ height_tenths <= 10)
        THEN Raised(h, id, "draw_text", args, s, "AssertionError")
        ELSE Returned(h, id, "draw_text", args, s)

Moviepy_draw_text(h, id, video_text, height_tenths, interval) ==
    LET args == <<video_text, height_tenths, interval>>
        s == h.streams[id]
    IN  IF ~s.has_video THEN Raised(h, id, "draw_text", args, s, "AssertionError")
        ELSE Returned(h, id, "draw_text", args, s)

draw_text(h0, id, video_text, height_tenths, interval) ==
    Do(h0, LAMBDA h :
        IF h.streams[id].backend = "ffmpeg"
        THEN FFMpeg_draw_text(h, id, video_text, height_tenths, interval)
        ELSE Moviepy_draw_text(h, id, video_text, height_tenths, interval))

(***************************************************************************)
(* add_audio                                                               *)
(***************************************************************************)
\* add_audio that keeps self.has_audio as it was
C11_mut_FFMpeg_add_audio(h, id, other) ==
    LET s == h.streams[id]
        o == h.streams[other]
    IN  IF ~(s.has_video /\ o.has_audio)
        THEN Raised(h, id, "add_audio", <<other>>, s, "AssertionError")
        ELSE Absorb(Returned(h, id, "add_audio", <<other>>,
                             [s EXCEPT !.stream_a = o.stream_a]), other)
FFMpeg_add_audio(h, id, other) ==
    LET s == h.streams[id]
        o == h.streams[other]
    IN  IF ~(s.has_video /\ o.has_audio)
        THEN Raised(h, id, "add_audio", <<other>>, s, "AssertionError")
        ELSE Absorb(Returned(h, id, "add_audio", <<other>>,
                             [s EXCEPT !.stream_a = o.stream_a, !.has_audio = TRUE]), other)

\* the audio is other.clip if that is an AudioClip, else other.clip.audio
Moviepy_add_audio(h, id, other) ==
    LET s == h.streams[id]
        o == h.streams[other]
        audio == IF o.clip.kind = "audio" THEN <<Track(o.clip.dur, o.clip.content)>>
                 ELSE o.clip.audio
    IN  IF ~(s.has_video /\ o.has_audio)
        THEN Raised(h, id, "add_audio", <<other>>, s, "AssertionError")
        ELSE Absorb(Returned(h, id, "add_audio", <<other>>,
                             [s EXCEPT !.reader_refs = @ \o o.reader_refs,
                                       !.has_audio = TRUE,
                                       !.clip.audio = audio]), other)

add_audio(h0, id, other) ==
    Do(h0, LAMBDA h :
        IF h.streams[id].backend = "ffmpeg" THEN FFMpeg_add_audio(h, id, other)
        ELSE Moviepy_add_audio(h, id, other))

(***************************************************************************)
(* replace_audio_by_beep, normalize_audio                                  *)
(***************************************************************************)
\* FFMpeg inherits Backend.replace_audio_by_beep, whose body is pass; the
\* Moviepy effect leaves a clip without audio as it is
replace_audio_by_beep(h0, id, interval) ==
    Do(h0, LAMBDA h :
        Returned(h, id, "replace_audio_by_beep", <<interval>>, h.streams[id]))

\* neither FFMpeg nor Backend defines normalize_audio
FFMpeg_normalize_audio(h, id) == Unsupported(h, id, "normalize_audio", <<>>, "AttributeError")

Moviepy_normalize_audio(h, id) ==
    LET s == h.streams[id]
    IN  IF ~s.has_audio THEN Raised(h, id, "normalize_audio", <<>>, s, "AssertionError")
        ELSE Returned(h, id, "normalize_audio", <<>>, s)

normalize_audio(h0, id) ==
    Do(h0, LAMBDA h :
        IF h.streams[id].backend = "ffmpeg" THEN FFMpeg_normalize_audio(h, id)
        ELSE Moviepy_normalize_audio(h, id))

(***************************************************************************)
(* create_single_image_stream, create_empty_stream, create_silent_stream   *)
(***************************************************************************)
\* resources/still_black.png
StillBlack == [name |-> "still_black", suffix |-> ".png", is_file |-> TRUE,
               dur |-> 0, size |-> <<1, 1>>]
\* resources/no_audio.mp3
NoAudio(dur) == [name |-> "no_audio", suffix |-> ".mp3", is_file |-> TRUE,
                 dur |-> dur, size |-> <<0, 0>>]

create_single_image_stream(h0, backend, input_image, duration, width, height) ==
    Do(h0, LAMBDA h :
        LET h1 == New(h, backend, input_image, TRUE, FALSE, width, height, Given(duration))
        IN  scale_video(h1, Newest(h1)))

create_empty_stream(h0, backend, duration, width, height) ==
    Do(h0, LAMBDA h :
        IF backend = "ffmpeg"
        THEN create_single_image_stream(h, backend, StillBlack, duration, width, height)
        ELSE New(h, backend, NoFile, FALSE, FALSE, width, height, Given(duration)))

\* FFMpeg has no create_silent_stream
create_silent_stream(h0, backend, duration, width, height) ==
    Do(h0, LAMBDA h :
        IF backend = "ffmpeg"
        THEN ClassCalled(h, "create_silent_stream", <<duration>>, "AttributeError")
        ELSE New(h, backend, NoFile, FALSE, TRUE, width, height, Given(duration)))

(***************************************************************************)
(* add_spacer, add_silence                                                 *)
(***************************************************************************)
FFMpeg_add_spacer(h, id, text, duration_s) ==
    LET s == h.streams[id]
        h0 == [h EXCEPT !.calls = Called(h, id, "add_spacer", <<text, duration_s>>, "none")]
        h1 == create_empty_stream(h0, "ffmpeg", duration_s, s.width, s.height)
        spacer == Newest(h1)
        h2 == draw_text_in_box(h1, spacer, text, duration_s, TRUE, FALSE, Absent)
    IN  IF ~s.has_video
        THEN Raised(h, id, "add_spacer", <<text, duration_s>>, s, "AssertionError")
        ELSE combine(h2, id, spacer, TRUE, Absent)

\* the spacer is a clip, not a stream: concatenate_videoclips([spacer, clip])
Moviepy_add_spacer(h, id, text, duration_s) ==
    LET s == h.streams[id]
        spacer == VideoMedia(duration_s, <<s.width, s.height>>, <<"spacer">>, <<>>)
    IN  IF ~s.has_video
        THEN Raised(h, id, "add_spacer", <<text, duration_s>>, s, "AssertionError")
        ELSE Returned(h, id, "add_spacer", <<text, duration_s>>,
                      [s EXCEPT !.clip = Joined(spacer, s.clip)])

add_spacer(h0, id, text, duration_s) ==
    Do(h0, LAMBDA h :
        IF h.streams[id].backend = "ffmpeg" THEN FFMpeg_add_spacer(h, id, text, duration_s)
        ELSE Moviepy_add_spacer(h, id, text, duration_s))

FFMpeg_add_silence(h, id, duration_s) ==
    LET s == h.streams[id]
        h0 == [h EXCEPT !.calls = Called(h, id, "add_silence", <<duration_s>>, "none")]
        h1 == New(h0, "ffmpeg", NoAudio(duration_s), FALSE, TRUE, s.width, s.height,
                  Given(duration_s))
    IN  IF ~s.has_audio
        THEN Raised(h, id, "add_silence", <<duration_s>>, s, "AssertionError")
        ELSE combine(h1, id, Newest(h1), TRUE, Absent)

\* concatenate_audioclips([silence_clip, clip]) reads nchannels: a video clip
\* has none
Moviepy_add_silence(h, id, duration_s) ==
    LET s == h.streams[id]
        silence_clip == AudioMedia(duration_s, <<"silence">>)
    IN  IF s.clip.kind # "audio"
        THEN Raised(h, id, "add_silence", <<duration_s>>, s, "AttributeError")
        ELSE Returned(h, id, "add_silence", <<duration_s>>,
                      [s EXCEPT !.clip = Joined(silence_clip, s.clip)])

add_silence(h0, id, duration_s) ==
    Do(h0, LAMBDA h :
        IF h.streams[id].backend = "ffmpeg" THEN FFMpeg_add_silence(h, id, duration_s)
        ELSE Moviepy_add_silence(h, id, duration_s))

(***************************************************************************)
(* run                                                                     *)
(***************************************************************************)
Did(d, event) == [d EXCEPT !.events = Append(@, event)]

\* tmp_intermediate_file with the copy in a finally
C16_mut_tmp_intermediate_file(d, writes, raises) ==
    LET made == [Did(d, "mkdtemp") EXCEPT !.tmp = "made"]
        body == IF writes THEN Did(made, "write") ELSE made
        copied == IF writes THEN [Did(body, "copy") EXCEPT !.out = "new"] ELSE body
    IN  [Did(copied, "rmtree") EXCEPT !.tmp = "removed"]

\* with tmp_intermediate_file(file_name_out) as tmp_out: body.  The body
\* writes tmp_out or not, and raises or not; the code after the yield copies
\* tmp_out if it exists and is skipped by an exception; TemporaryDirectory
\* removes the directory either way.
tmp_intermediate_file(d, writes, raises) ==
    LET made == [Did(d, "mkdtemp") EXCEPT !.tmp = "made"]
        body == IF writes THEN Did(made, "write") ELSE made
        copied == IF ~raises /\ writes THEN [Did(body, "copy") EXCEPT !.out = "new"]
                  ELSE body
    IN  [Did(copied, "rmtree") EXCEPT !.tmp = "removed"]

\* FFMpeg.run describes the output inside the with block and, unless
\* dry_run, renders it; renders tells whether output_stream.run() succeeds
FFMpeg_run(h, id, file_name, dry_run, renders) ==
    LET raises == ~dry_run /\ ~renders
        h1 == [h EXCEPT !.disk = tmp_intermediate_file(h.disk, ~dry_run, raises)]
    IN  IF raises THEN Raised(h1, id, "run", <<dry_run>>, h.streams[id], "Error")
        ELSE Returned([h1 EXCEPT !.disk.file_name_out = file_name],
                      id, "run", <<dry_run>>, h.streams[id])

\* close_readers that gives up at the first close() that raises
C27_mut_close_readers(h, id) ==
    LET refs == h.streams[id].reader_refs
        ok(i) == \A j \in 1..i : refs[j] \notin h.disk.failing
    IN  [h EXCEPT !.disk.closed = @ \cup {refs[i] : i \in {j \in 1..Len(refs) : ok(j)}},
                  !.disk.close_raised = @ \cup {refs[i] : i \in {j \in 1..Len(refs) :
                                                    ~ok(j) /\ (j = 1 \/ ok(j - 1))}},
                  !.streams[id].reader_refs = <<>>]
\* for ref in self.reader_refs: try ref.close(), an exception is passed
\* over; self.reader_refs = []
close_readers(h, id) ==
    LET refs == {h.streams[id].reader_refs[i] : i \in 1..Len(h.streams[id].reader_refs)}
    IN  [h EXCEPT !.disk.closed = @ \cup (refs \ h.disk.failing),
                  !.disk.close_raised = @ \cup (refs \cap h.disk.failing),
                  !.streams[id].reader_refs = <<>>]

\* Moviepy.run renders unless dry_run, then closes the readers; renders
\* tells whether write_videofile succeeds
Moviepy_run(h, id, file_name, dry_run, renders) ==
    LET file_name_out == IF file_name.suffix \in {".mp3", ".wav"}
                         THEN Path(file_name.name, ".mp4")
                         ELSE file_name
        raises == ~dry_run /\ ~renders
        h1 == IF dry_run THEN h
              ELSE [h EXCEPT !.disk = tmp_intermediate_file(h.disk, TRUE, raises)]
        h2 == close_readers(h1, id)
    IN  IF raises THEN Raised(h1, id, "run", <<dry_run>>, h.streams[id], "OSError")
        ELSE Returned([h2 EXCEPT !.disk.file_name_out = file_name_out],
                      id, "run", <<dry_run>>, h2.streams[id])

run(h0, id, file_name, dry_run, renders) ==
    Do(h0, LAMBDA h :
        IF h.streams[id].backend = "ffmpeg" THEN FFMpeg_run(h, id, file_name, dry_run, renders)
        ELSE Moviepy_run(h, id, file_name, dry_run, renders))

(***************************************************************************)
(* io.py: get_interval_in_fractional_s.  A fractional second is kept as    *)
(* <<whole seconds, the digits after the point>>.                          *)
(***************************************************************************)
fraction_of(x) ==
    LET fsec == split(x, ".")
    IN  IF Len(fsec) # 2 THEN Ret(<<>>)
        ELSE IF \E i \in 1..Len(fsec[2]) : fsec[2][i] \notin DigitChars
        THEN Raise("ValueError")
        ELSE Ret(fsec[2])

get_interval_in_fractional_s(interval) ==
    Then(get_interval_in_s(interval), LAMBDA seconds :
        Then(fraction_of(interval[1]), LAMBDA f1 :
            Then(fraction_of(interval[2]), LAMBDA f2 :
                Ret(<< <<seconds[1], f1>>, <<seconds[2], f2>> >>))))

(***************************************************************************)
(* video.py: filter_stream_video, filter_stream_videos,                    *)
(* filter_stream_audio, filter_stream_audios                               *)
(***************************************************************************)
\* ""
EmptyStr == <<>>

\* " - ".join(texts)
RECURSIVE join(_, _)
join(sep, texts) ==
    IF texts = <<>> THEN <<>>
    ELSE IF Len(texts) = 1 THEN texts[1]
    ELSE texts[1] \o sep \o join(sep, Tail(texts))

\* s[n:]
Suffix(s, n) == SubSeq(s, Min(n, Len(s)) + 1, Len(s))

\* for answer_text in texts: stream.draw_text(answer_text, 0.5 - 0.1 * n + 0.2 * text_id)
RECURSIVE draw_texts(_, _, _, _, _)
draw_texts(h, id, texts, n, text_id) ==
    IF texts = <<>> THEN h
    ELSE draw_texts(draw_text(h, id, Head(texts), 5 - n + 2 * text_id, Absent),
                    id, Tail(texts), n, text_id + 1)

\* for event in answer_label_events: stream.draw_text(..., interval=offset_interval_sec)
RECURSIVE draw_events(_, _, _, _, _, _)
draw_events(h, id, events, n, text_id, interval) ==
    IF events = <<>> THEN h
    ELSE Try(h, get_interval_in_fractional_s(Head(events).interval), LAMBDA interval_sec :
             draw_events(draw_text(h, id, Head(events).answer, 5 - n + 2 * text_id,
                                   Given(<< <<interval_sec[1][1] - interval[1],
                                              interval_sec[1][2]>>,
                                            <<interval_sec[2][1] - interval[1],
                                              interval_sec[2][2]>> >>)),
                         id, Tail(events), n, text_id + 1, interval))

filter_stream_video(h, id, kind, interval, answer_texts, do_reverse, answer_label_events) ==
    LET h1 == trim(h, id, interval[1], interval[2])
        h2 == scale_video(IF do_reverse THEN reverse(h1, id) ELSE h1, id)
        answer_text == join(<<" - ">>, Prefix(answer_texts, 2))
        rest == Suffix(answer_texts, 2)
        h3 == IF kind # "answer" THEN h2
              ELSE Try(h2, get_interval_length(interval), LAMBDA length :
                       draw_events(
                           draw_texts(
                               draw_text_in_box(h2, id, answer_text, length, FALSE, TRUE,
                                                Given(DelayAnswerText)),
                               id, rest, Len(rest), 0),
                           id, answer_label_events, Len(answer_label_events), Len(rest),
                           interval))
    IN  Try(h3, get_interval_length(interval), LAMBDA length :
            fade_in_and_out(h3, id, FadeAmount, length))

\* filter_stream_videos that prepends the spacer before it repeats
C24_mut_filter_stream_videos(h, id, kind, round_id, question_id, repetitions, total_duration, spacer_txt, is_example) ==
    LET named == IF is_example
                 THEN <<"Example ", kind, " for round ">> \o DecStr(round_id)
                 ELSE <<"Question ">> \o DecStr(round_id) \o <<".">> \o DecStr(question_id)
        question_text == IF repetitions > 1
                         THEN named \o <<" (">> \o DecStr(repetitions) \o <<"x)">>
                         ELSE named
        h1 == draw_text_in_box(h, id, question_text, total_duration, TRUE, FALSE, Absent)
        h2 == IF spacer_txt # EmptyStr /\ (kind = "question" \/ is_example)
              THEN add_spacer(h1, id, spacer_txt, SpacerDuration)
              ELSE h1
    IN  repeat_stream(h2, id, repetitions)
filter_stream_videos(h, id, kind, round_id, question_id, repetitions, total_duration, spacer_txt, is_example) ==
    LET named == IF is_example
                 THEN <<"Example ", kind, " for round ">> \o DecStr(round_id)
                 ELSE <<"Question ">> \o DecStr(round_id) \o <<".">> \o DecStr(question_id)
        question_text == IF repetitions > 1
                         THEN named \o <<" (">> \o DecStr(repetitions) \o <<"x)">>
                         ELSE named
        h1 == draw_text_in_box(h, id, question_text, total_duration, TRUE, FALSE, Absent)
        h2 == repeat_stream(h1, id, repetitions)
    IN  IF spacer_txt # EmptyStr /\ (kind = "question" \/ is_example)
        THEN add_spacer(h2, id, spacer_txt, SpacerDuration)
        ELSE h2

\* for event in beep_events: stream.replace_audio_by_beep(interval=beep_sec)
RECURSIVE beeps(_, _, _)
beeps(h, id, beep_events) ==
    IF beep_events = <<>> THEN h
    ELSE Try(h, get_interval_in_fractional_s(Head(beep_events).interval), LAMBDA beep_sec :
             beeps(replace_audio_by_beep(h, id, beep_sec), id, Tail(beep_events)))

\* filter_stream_audio that trims before it replaces the beeps
C23_mut_filter_stream_audio(h, id, interval, do_reverse, beep_events) ==
    LET h1 == beeps(trim(h, id, interval[1], interval[2]), id, beep_events)
        h2 == IF do_reverse THEN reverse(h1, id) ELSE h1
    IN  Try(h2, get_interval_length(interval), LAMBDA length :
            fade_in_and_out(h2, id, FadeAmount, length))
filter_stream_audio(h, id, interval, do_reverse, beep_events) ==
    LET h1 == trim(beeps(h, id, beep_events), id, interval[1], interval[2])
        h2 == IF do_reverse THEN reverse(h1, id) ELSE h1
    IN  Try(h2, get_interval_length(interval), LAMBDA length :
            fade_in_and_out(h2, id, FadeAmount, length))

filter_stream_audios(h, id, kind, repetitions, spacer_txt, is_example) ==
    LET h1 == repeat_stream(h, id, repetitions)
        h2 == IF spacer_txt # EmptyStr /\ (kind = "question" \/ is_example)
              THEN add_silence(h1, id, SpacerDuration)
              ELSE h1
    IN  normalize_audio(h2, id)

(***************************************************************************)
(* video.py: get_backend, get_sources,                                     *)
(* unlink_if_exists_and_not_using_as_cached                                *)
(***************************************************************************)
get_backend(backend) ==
    IF backend \in {"ffmpeg", "moviepy"} THEN Ret(backend) ELSE Raise("ValueError")

\* question[kind + "_" + media]
Clips(question, kind, media) ==
    IF kind = "question"
    THEN (IF media = "video" THEN question.question_video ELSE question.question_audio)
    ELSE (IF media = "video" THEN question.answer_video ELSE question.answer_audio)

\* sources[source_index]: a negative index counts from the end
Indexed(sources, source_index) ==
    IF source_index >= 0 THEN sources[source_index + 1]
    ELSE sources[Len(sources) + source_index + 1]

get_sources(question, media, kind) ==
    LET sources == question.sources
        clips == Clips(question, kind, media)
    IN  IF \E i \in 1..Len(clips) : clips[i].source >= Len(sources)
        THEN Raise("ValueError")
        ELSE IF \E i \in 1..Len(clips) : clips[i].source < -Len(sources)
        THEN Raise("IndexError")
        ELSE Ret([i \in 1..Len(clips) |-> Indexed(sources, clips[i].source)])

\* unlink_if_exists_and_not_using_as_cached that always asks for the render
C14_mut_unlink_if_exists_and_not_using_as_cached(d, use_cached_video_files) ==
    IF d.out # "absent" /\ ~use_cached_video_files
    THEN <<TRUE, [Did(d, "unlink") EXCEPT !.out = "absent"]>>
    ELSE <<TRUE, d>>
\* <<generate_video, the disk afterwards>>
unlink_if_exists_and_not_using_as_cached(d, use_cached_video_files) ==
    IF d.out # "absent"
    THEN (IF use_cached_video_files THEN <<FALSE, d>>
          ELSE <<TRUE, [Did(d, "unlink") EXCEPT !.out = "absent"]>>)
    ELSE <<TRUE, d>>

(***************************************************************************)
(* State.                                                                  *)
(***************************************************************************)
VARIABLES
    call,     \* the call made last: its name and its arguments
    ret,      \* what a utility call returned or raised
    streams,  \* the streams made so far; a stream's id is its index
    calls,    \* the backend calls made so far, in order
    exc,      \* the exception that ended the run, "none" while it runs
    pc,       \* where the run is
    disk,     \* the output file, the temporary directory, the readers
    job,      \* the input of the run
    local     \* the local variables of the running function

heap == <<streams, calls, exc, disk>>
vars == <<call, ret, streams, calls, exc, disk, pc, job, local>>

NoCall == [fn |-> "none", args |-> <<>>]
NoJob == [fn |-> "none"]
NoLocal == [fn |-> "none"]

\* the heap as the operators take it, and its write-back
H == [streams |-> streams, calls |-> calls, exc |-> exc, disk |-> disk]
Commit(h) ==
    /\ streams' = h.streams
    /\ calls' = h.calls
    /\ exc' = h.exc
    /\ disk' = h.disk

(***************************************************************************)
(* SpecUtil: the utility functions on bounded inputs.                      *)
(***************************************************************************)
\* the seconds written at the second end of an interval
SecSamples == {0, 9, 11, 59}
\* an optional fraction after the seconds, "M:SS.f"
Fractions == {<<>>, <<".", "5">>}
\* frame sizes: the small ones and those of test_moviepy.py
Dims == (1..MaxDim) \cup {75, 200, 300, 400, 600, 700, 800, 1200}

InitUtil ==
    /\ call = NoCall
    /\ ret = Ret(<<>>)
    /\ streams = <<>>
    /\ calls = <<>>
    /\ exc = "none"
    /\ disk = Disk(FALSE)
    /\ pc = "util"
    /\ job = NoJob
    /\ local = NoLocal

\* each behaviour is one call, made from the initial state
Call_get_interval_in_s ==
    /\ call = NoCall
    /\ UNCHANGED <<heap, pc, job, local>>
    /\ \E m1 \in 0..MaxMin, s1 \in 0..59, m2 \in 0..MaxMin, s2 \in SecSamples, f \in Fractions :
        LET interval == <<TimeStr(m1, s1) \o f, TimeStr(m2, s2) \o f>>
        IN  /\ call' = [fn |-> "get_interval_in_s", args |-> interval]
            /\ ret' = get_interval_in_s(interval)

Call_get_interval_duration ==
    /\ call = NoCall
    /\ UNCHANGED <<heap, pc, job, local>>
    /\ \E m1 \in 0..MaxMin, s1 \in SecSamples, m2 \in 0..MaxMin, s2 \in SecSamples :
        LET interval == <<TimeStr(m1, s1), TimeStr(m2, s2)>>
        IN  /\ call' = [fn |-> "get_interval_duration", args |-> interval]
            /\ ret' = get_interval_duration(interval)

Call_get_interval_length ==
    /\ call = NoCall
    /\ UNCHANGED <<heap, pc, job, local>>
    /\ \E a \in 0..MaxT, b \in 0..MaxT :
        /\ call' = [fn |-> "get_interval_length", args |-> <<a, b>>]
        /\ ret' = get_interval_length(<<a, b>>)

Call_get_scaled_size ==
    /\ call = NoCall
    /\ UNCHANGED <<heap, pc, job, local>>
    /\ \E w_in \in Dims, h_in \in Dims, max_w \in Dims, max_h \in Dims :
        \E r \in get_scaled_size(w_in, h_in, max_w, max_h) :
            /\ call' = [fn |-> "get_scaled_size", args |-> <<w_in, h_in, max_w, max_h>>]
            /\ ret' = Ret(r)

NextUtil ==
    \/ Call_get_interval_in_s
    \/ Call_get_interval_duration
    \/ Call_get_interval_length
    \/ Call_get_scaled_size

SpecUtil == InitUtil /\ [][NextUtil]_vars

(***************************************************************************)
(* SpecBackend: up to two streams of one backend are opened from files and *)
(* one backend operation is applied to the first, after any number of      *)
(* repeat() calls.                                                         *)
(***************************************************************************)
Backends == {"ffmpeg", "moviepy"}

\* a video file of the sources: it has a picture and sound
VideoFile(n, dur) ==
    SourceFile(IF n = 1 THEN "file1" ELSE "file2", ".mp4", dur, <<800, 600>>)

\* the channels a stream is opened with from a file
FileFlags == {<<TRUE, TRUE>>, <<TRUE, FALSE>>, <<FALSE, TRUE>>}

InitBackend ==
    /\ call = NoCall
    /\ ret = Ret(<<>>)
    /\ streams = <<>>
    /\ calls = <<>>
    /\ exc = "none"
    /\ disk \in {[Disk(exists) EXCEPT !.failing = failing] :
                    exists \in BOOLEAN, failing \in FailingReaders}
    /\ pc = "open"
    /\ job = [fn |-> "backend", opened |-> <<>>]
    /\ local = NoLocal

\* backend_cls(source_file, has_video, has_audio, width, height): the
\* receiver of the operation, then the other stream it may take
B_Open ==
    /\ pc = "open"
    /\ Len(streams) < 2
    /\ Len(calls) = Len(streams)
    /\ \E backend \in Backends, flags \in FileFlags, dur \in 1..MaxDur :
        /\ \A i \in 1..Len(streams) : streams[i].backend = backend
        /\ Commit(New(H, backend, VideoFile(Len(streams) + 1, dur), flags[1], flags[2],
                      DefaultWidth, DefaultHeight, Absent))
        /\ job' = [job EXCEPT !.opened = Append(@, [has_video |-> flags[1],
                                                    has_audio |-> flags[2],
                                                    dur |-> dur])]
        /\ call' = [fn |-> "__init__", args |-> <<backend, flags, dur>>, at |-> Len(calls)]
    /\ UNCHANGED <<ret, pc, local>>

\* the operation whose outcome is h is applied and ends the behaviour; the
\* call is noted with the length of the call log when it was made
BackendOp(fn, args, h) ==
    /\ pc = "open"
    /\ Len(streams) >= 1
    /\ call' = [fn |-> fn, args |-> args, at |-> Len(calls)]
    /\ Commit(h)
    /\ pc' = "done"
    /\ UNCHANGED <<ret, job, local>>

B_repeat ==
    /\ pc = "open"
    /\ Len(streams) >= 1
    /\ Len(calls) < Len(streams) + MaxRepeats
    /\ call' = [fn |-> "repeat", args |-> <<>>, at |-> Len(calls)]
    /\ Commit(repeat(H, 1))
    /\ pc' = IF exc' = "none" THEN "open" ELSE "done"
    /\ UNCHANGED <<ret, job, local>>

B_repeat_stream ==
    \E repetitions \in 0..MaxRep :
        BackendOp("repeat_stream", <<repetitions>>, repeat_stream(H, 1, repetitions))

B_trim ==
    \E start_s \in 0..MaxT, end_s \in 0..MaxT :
        BackendOp("trim", <<start_s, end_s>>, trim(H, 1, start_s, end_s))

B_combine ==
    /\ Len(streams) = 2
    /\ \E other_first \in BOOLEAN, cf \in {Absent} \cup {Given(c) : c \in 0..MaxCf} :
        BackendOp("combine", <<2, other_first, cf>>, combine(H, 1, 2, other_first, cf))

B_fade_in_and_out ==
    BackendOp("fade_in_and_out", <<FadeAmount, 0>>, fade_in_and_out(H, 1, FadeAmount, 0))

B_reverse == BackendOp("reverse", <<>>, reverse(H, 1))

\* scale_video(), and once more on the stream it returned on
B_scale_video ==
    /\ pc \in {"open", "scaled"}
    /\ Len(streams) >= 1
    /\ call' = [fn |-> "scale_video", args |-> <<>>, at |-> Len(calls)]
    /\ Commit(scale_video(H, 1))
    /\ pc' = IF exc' = "none" /\ pc = "open" THEN "scaled" ELSE "done"
    /\ UNCHANGED <<ret, job, local>>

B_draw_text_in_box ==
    \E move \in BOOLEAN, delay \in {Absent, Given(0)}, length \in 1..MaxDur :
        BackendOp("draw_text_in_box", <<move, delay, length>>,
                  draw_text_in_box(H, 1, <<"text">>, length, move, FALSE, delay))

B_draw_text ==
    \E height_tenths \in {2, 11}, interval \in {Absent, Given(<<0, 1>>)} :
        BackendOp("draw_text", <<height_tenths, interval>>,
                  draw_text(H, 1, <<"text">>, height_tenths, interval))

B_add_audio ==
    /\ Len(streams) = 2
    /\ BackendOp("add_audio", <<2>>, add_audio(H, 1, 2))

B_replace_audio_by_beep ==
    BackendOp("replace_audio_by_beep", <<>>, replace_audio_by_beep(H, 1, <<0, 1>>))

B_normalize_audio == BackendOp("normalize_audio", <<>>, normalize_audio(H, 1))

B_add_spacer ==
    BackendOp("add_spacer", <<SpacerDuration>>, add_spacer(H, 1, <<"text">>, SpacerDuration))

B_add_silence ==
    BackendOp("add_silence", <<SpacerDuration>>, add_silence(H, 1, SpacerDuration))

B_run ==
    \E dry_run \in BOOLEAN, renders \in BOOLEAN, suffix \in {".mp4", ".mp3"} :
        BackendOp("run", <<dry_run, renders, suffix>>,
                  run(H, 1, Path("out", suffix), dry_run, renders))

NextBackend ==
    \/ B_Open
    \/ B_repeat
    \/ B_repeat_stream
    \/ B_trim
    \/ B_combine
    \/ B_fade_in_and_out
    \/ B_reverse
    \/ B_scale_video
    \/ B_draw_text_in_box
    \/ B_draw_text
    \/ B_add_audio
    \/ B_replace_audio_by_beep
    \/ B_normalize_audio
    \/ B_add_spacer
    \/ B_add_silence
    \/ B_run

SpecBackend == InitBackend /\ [][NextBackend]_vars

(***************************************************************************)
(* Spec: clip assembly.  One call of create_video, create_text_video,      *)
(* create_video_from_single_image or combine_videos runs on an input fixed *)
(* at the start; create_video advances one loop iteration at a time.       *)
(***************************************************************************)
\* the files get_source left in the sources folder
Sources ==
    <<SourceFile("file1", ".mp4", SrcDur, <<800, 600>>),
      SourceFile("file2", ".mp3", SrcDur, <<0, 0>>)>>
Image == SourceFile("image", ".png", 0, <<800, 600>>)

Iv(a, b) == <<TimeStr(0, a), TimeStr(0, b)>>
\* a clip of question_video, question_audio, answer_video or answer_audio
Clip(source, interval, do_reverse, crossfade_duration, events) ==
    [source |-> source, interval |-> interval, reverse |-> do_reverse,
     crossfade_duration |-> crossfade_duration, events |-> events]
Plain(interval) == Clip(0, interval, FALSE, 0, <<>>)
Event(a, b) == [answer |-> <<"label">>, interval |-> Iv(a, b)]

\* intervals: a short and a long one, one that ends before it starts, an empty one
Intervals == {Iv(1, 3), Iv(1, 9), Iv(3, 1), Iv(3, 3)}
ClipChoices ==
    {Plain(iv) : iv \in Intervals}
    \cup {Clip(0, Iv(1, 3), TRUE, 0, <<>>),
          Clip(0, Iv(1, 3), FALSE, 1, <<>>),
          Clip(0, Iv(1, 3), FALSE, 0, <<Event(1, 2)>>)}

ClipLists == UNION {[1..n -> ClipChoices] : n \in 1..MaxSegs}

RECURSIVE total_duration(_)
total_duration(clips) ==
    IF clips = <<>> THEN 0
    ELSE get_interval_duration(Head(clips).interval).val + total_duration(Tail(clips))

\* one clip that lasts d seconds
Lasting(d) == IF d >= 0 THEN Plain(Iv(0, d)) ELSE Plain(Iv(-d, 0))

Question(video, audio, repetitions) ==
    [sources |-> Sources, repetitions |-> repetitions,
     question_video |-> video, question_audio |-> audio,
     answer_video |-> video, answer_audio |-> audio]

Answers(n) == [i \in 1..n |-> <<"answer", DigitChar(i)>>]

CreateVideo(kind, backend, question, answer_texts, spacer_txt, use_cached, exists, is_example) ==
    [fn |-> "create_video", kind |-> kind, backend |-> backend, round_id |-> 1,
     question_id |-> 2, question |-> question, answer_texts |-> answer_texts,
     width |-> DefaultWidth, height |-> DefaultHeight, spacer_txt |-> spacer_txt,
     use_cached_video_files |-> use_cached, exists |-> exists, is_example |-> is_example]

\* verify_json_input lets a question pass whose video and audio clips last
\* equally long in total
Questions ==
    \* the clips vary on one side
    {Question(v, <<Lasting(total_duration(v))>>, Absent) : v \in ClipLists}
    \cup {Question(<<Lasting(total_duration(a))>>, a, Absent) : a \in ClipLists}
    \* the source of the clip varies
    \cup {Question(<<Clip(i, Iv(1, 3), FALSE, 0, <<>>)>>, <<Clip(j, Iv(1, 3), FALSE, 0, <<>>)>>,
                   Absent) : i \in {-3, -1, 0, 1, 2}, j \in {-1, 0, 2}}

Kinds == {"question", "answer"}

\* the unit videos combine_videos is given: rendered titles and units, in
\* lists without repetition of up to MaxSegs files
UnitVideos ==
    {SourceFile("title", ".mp4", 1, <<DefaultWidth, DefaultHeight>>),
     SourceFile("unit1", ".mkv", 2, <<DefaultWidth, DefaultHeight>>),
     SourceFile("unit2", ".mp4", 1, <<DefaultWidth, DefaultHeight>>)}
UnitLists ==
    UNION {{l \in [1..n -> UnitVideos] : \A i \in 1..n, j \in 1..n : l[i] = l[j] => i = j} :
               n \in 0..MaxSegs}

Jobs ==
    {CreateVideo(kind, backend, q, <<Answers(1)>>, EmptyStr, FALSE, FALSE, FALSE) :
         kind \in Kinds, backend \in Backends, q \in Questions}
    \* the finishing of the combined streams varies
    \cup {CreateVideo(kind, backend,
                      Question(<<Plain(Iv(1, 9))>>,
                               <<Clip(0, Iv(1, 9), FALSE, 0, <<Event(2, 3)>>)>>, r),
                      <<Answers(n)>>, spacer_txt, cached[1], cached[2], is_example) :
              kind \in Kinds, backend \in Backends,
              r \in {Absent} \cup {Given(k) : k \in 0..MaxRep}, n \in 0..MaxAnswers,
              spacer_txt \in {EmptyStr, <<"Get ready">>},
              cached \in BOOLEAN \X BOOLEAN,
              is_example \in BOOLEAN}
    \cup {CreateVideo("question", "vlc", Question(<<Plain(Iv(1, 3))>>, <<Plain(Iv(1, 3))>>, Absent),
                      <<Answers(1)>>, EmptyStr, FALSE, FALSE, FALSE)}
    \cup {[fn |-> "create_text_video", backend |-> backend, source_texts |-> Answers(n),
           duration |-> d, width |-> DefaultWidth, height |-> DefaultHeight,
           use_cached_video_files |-> cached[1], exists |-> cached[2]] :
              backend \in Backends, n \in 0..MaxAnswers, d \in 1..MaxDur,
              cached \in BOOLEAN \X BOOLEAN}
    \cup {[fn |-> "create_video_from_single_image", backend |-> backend, input_image |-> Image,
           duration |-> d, width |-> DefaultWidth, height |-> DefaultHeight,
           exists |-> exists] :
              backend \in Backends, d \in 1..MaxDur, exists \in BOOLEAN}
    \cup {[fn |-> "combine_videos", backend |-> backend, kind |-> "question",
           video_files |-> video_files,
           width |-> DefaultWidth, height |-> DefaultHeight, exists |-> exists] :
              backend \in Backends, video_files \in UnitLists, exists \in BOOLEAN}

Init ==
    /\ call = NoCall
    /\ ret = Ret(<<>>)
    /\ streams = <<>>
    /\ calls = <<>>
    /\ exc = "none"
    /\ pc = "start"
    /\ job \in Jobs
    /\ disk \in {[Disk(job.exists) EXCEPT !.failing = failing] : failing \in FailingReaders}
    /\ local = NoLocal

\* the run goes on at pc next unless an exception ended it
Goto(next) == pc' = IF exc' = "none" THEN next ELSE "raised"

\* create_video up to the first loop: the sources, the files, the target
CV_Start ==
    /\ pc = "start"
    /\ job.fn = "create_video"
    /\ LET repetitions == IF job.kind = "question" /\ job.question.repetitions # Absent
                          THEN job.question.repetitions[1]
                          ELSE 1
           video_sources == get_sources(job.question, "video", job.kind)
           audio_sources == get_sources(job.question, "audio", job.kind)
           media_files == video_sources.val \o audio_sources.val
           unlinked == unlink_if_exists_and_not_using_as_cached(disk,
                                                                job.use_cached_video_files)
           backend_cls == get_backend(job.backend)
           \* what ends the run before the target file is looked at
           early == IF job.kind \notin Kinds THEN "AssertionError"
                    ELSE IF video_sources.exc # "none" THEN video_sources.exc
                    ELSE IF audio_sources.exc # "none" THEN audio_sources.exc
                    ELSE IF \E i \in 1..Len(media_files) : ~media_files[i].is_file
                    THEN "FileNotFoundError"
                    ELSE "none"
       IN  /\ exc' = IF early # "none" THEN early ELSE backend_cls.exc
           /\ disk' = IF early # "none" THEN disk ELSE unlinked[2]
           /\ local' = IF video_sources.exc # "none" \/ audio_sources.exc # "none"
                       THEN NoLocal
                       ELSE [fn |-> "create_video", repetitions |-> repetitions,
                             video_files |-> video_sources.val,
                             audio_files |-> audio_sources.val,
                             generate_video |-> unlinked[1],
                             exists |-> unlinked[2].out # "absent",
                             stream_videos |-> 0, stream_audios |-> 0,
                             total_duration |-> 0, video_id |-> 0, audio_id |-> 0]
    /\ call' = [fn |-> "create_video", args |-> <<job.kind, job.backend>>, at |-> Len(calls)]
    /\ Goto("video")
    /\ UNCHANGED <<ret, streams, calls, job>>

\* one iteration of "for video_id, video_info in enumerate(question[kind + '_video'])"
CV_VideoSegment ==
    /\ pc = "video"
    /\ local.video_id < Len(Clips(job.question, job.kind, "video"))
    /\ LET video_id == local.video_id
           video_info == Clips(job.question, job.kind, "video")[video_id + 1]
           answer_texts == job.answer_texts[(video_id % Len(job.answer_texts)) + 1]
       IN  /\ Commit(
                Try(H, get_interval_in_s(video_info.interval), LAMBDA interval :
                  Try(H, get_interval_length(interval), LAMBDA length :
                    LET h1 == New(H, job.backend, local.video_files[video_id + 1], TRUE, FALSE,
                                  job.width, job.height, Absent)
                        stream_video == Len(streams) + 1
                        h2 == filter_stream_video(h1, stream_video, job.kind, interval,
                                                  answer_texts, video_info.reverse,
                                                  video_info.events)
                    IN  IF local.stream_videos = 0 THEN h2
                        ELSE combine(h2, local.stream_videos, stream_video, FALSE,
                                     Given(video_info.crossfade_duration)))))
           /\ local' = IF exc' # "none" THEN local
                       ELSE [local EXCEPT
                                !.total_duration =
                                    @ + get_interval_duration(video_info.interval).val,
                                !.stream_videos = IF @ = 0 THEN Len(streams) + 1 ELSE @,
                                !.video_id = @ + 1]
    /\ call' = [fn |-> "video_segment", args |-> <<local.video_id>>, at |-> Len(calls)]
    /\ Goto("video")
    /\ UNCHANGED <<ret, job>>

\* after the loop: filter_stream_videos on the combined video
CV_FinishVideo ==
    /\ pc = "video"
    /\ local.video_id = Len(Clips(job.question, job.kind, "video"))
    /\ IF local.stream_videos = 0 THEN Commit(RaiseIn(H, "AssertionError"))
       ELSE Commit(filter_stream_videos(H, local.stream_videos, job.kind, job.round_id,
                                        job.question_id, local.repetitions,
                                        local.total_duration, job.spacer_txt,
                                        job.is_example))
    /\ call' = [fn |-> "filter_stream_videos", args |-> <<local.stream_videos>>,
                at |-> Len(calls)]
    /\ Goto("audio")
    /\ UNCHANGED <<ret, job, local>>

\* one iteration of "for audio_id, audio_info in enumerate(question[kind + '_audio'])"
CV_AudioSegment ==
    /\ pc = "audio"
    /\ local.audio_id < Len(Clips(job.question, job.kind, "audio"))
    /\ LET audio_id == local.audio_id
           audio_info == Clips(job.question, job.kind, "audio")[audio_id + 1]
       IN  /\ Commit(
                Try(H, get_interval_in_s(audio_info.interval), LAMBDA interval :
                    LET h1 == New(H, job.backend, local.audio_files[audio_id + 1], FALSE, TRUE,
                                  job.width, job.height, Absent)
                        stream_audio == Len(streams) + 1
                        h2 == filter_stream_audio(h1, stream_audio, interval,
                                                  audio_info.reverse, audio_info.events)
                    IN  IF local.stream_audios = 0 THEN h2
                        ELSE combine(h2, local.stream_audios, stream_audio, FALSE,
                                     Given(audio_info.crossfade_duration))))
           /\ local' = IF exc' # "none" THEN local
                       ELSE [local EXCEPT
                                !.stream_audios = IF @ = 0 THEN Len(streams) + 1 ELSE @,
                                !.audio_id = @ + 1]
    /\ call' = [fn |-> "audio_segment", args |-> <<local.audio_id>>, at |-> Len(calls)]
    /\ Goto("audio")
    /\ UNCHANGED <<ret, job>>

\* the end of create_video that runs the audio stream after add_audio took it
C28_mut_CV_FinishAudio ==
    /\ pc = "audio"
    /\ local.audio_id = Len(Clips(job.question, job.kind, "audio"))
    /\ LET h1 == filter_stream_audios(H, local.stream_audios, job.kind, local.repetitions,
                                      job.spacer_txt, job.is_example)
           h2 == add_audio(h1, local.stream_videos, local.stream_audios)
       IN  IF local.stream_audios = 0 THEN Commit(RaiseIn(H, "AssertionError"))
           ELSE \E renders \in BOOLEAN :
                    Commit(run(h2, local.stream_audios, Path(job.kind, ".mp4"),
                               ~local.generate_video, renders))
    /\ call' = [fn |-> "filter_stream_audios", args |-> <<local.stream_audios>>,
                at |-> Len(calls)]
    /\ Goto("done")
    /\ UNCHANGED <<ret, job, local>>

\* after the loop: filter_stream_audios, add_audio, run
CV_FinishAudio ==
    /\ pc = "audio"
    /\ local.audio_id = Len(Clips(job.question, job.kind, "audio"))
    /\ LET h1 == filter_stream_audios(H, local.stream_audios, job.kind, local.repetitions,
                                      job.spacer_txt, job.is_example)
           h2 == add_audio(h1, local.stream_videos, local.stream_audios)
       IN  IF local.stream_audios = 0 THEN Commit(RaiseIn(H, "AssertionError"))
           ELSE \E renders \in BOOLEAN :
                    Commit(run(h2, local.stream_videos, Path(job.kind, ".mp4"),
                               ~local.generate_video, renders))
    /\ call' = [fn |-> "filter_stream_audios", args |-> <<local.stream_audios>>,
                at |-> Len(calls)]
    /\ Goto("done")
    /\ UNCHANGED <<ret, job, local>>

create_text_video ==
    /\ pc = "start"
    /\ job.fn = "create_text_video"
    /\ LET backend_cls == get_backend(job.backend)
           h1 == create_empty_stream(H, job.backend, job.duration, job.width, job.height)
           stream == Newest(h1)
           num_texts == Len(job.source_texts)
           h2 == draw_texts(h1, stream, job.source_texts, num_texts, 0)
           h3 == fade_in_and_out(h2, stream, 1, job.duration)
           h4 == create_silent_stream(h3, job.backend, job.duration, job.width, job.height)
           audio == Newest(h4)
           h5 == add_audio(h4, stream, audio)
           unlinked == unlink_if_exists_and_not_using_as_cached(disk,
                                                                job.use_cached_video_files)
           \* the target file is looked at if nothing was raised before
           h6 == IF h5.exc # "none" THEN h5 ELSE [h5 EXCEPT !.disk = unlinked[2]]
       IN  /\ \E renders \in BOOLEAN :
                  Commit(IF backend_cls.exc # "none" THEN RaiseIn(H, backend_cls.exc)
                         ELSE run(h6, stream, Path("title", ".mp4"), ~unlinked[1], renders))
           /\ local' = [fn |-> "create_text_video", generate_video |-> unlinked[1]]
    /\ call' = [fn |-> "create_text_video", args |-> <<job.backend>>, at |-> Len(calls)]
    /\ Goto("done")
    /\ UNCHANGED <<ret, job>>

create_video_from_single_image ==
    /\ pc = "start"
    /\ job.fn = "create_video_from_single_image"
    /\ LET backend_cls == get_backend(job.backend)
           h1 == create_single_image_stream(H, job.backend, job.input_image, job.duration,
                                            job.width, job.height)
       IN  \E renders \in BOOLEAN :
               Commit(IF backend_cls.exc # "none" THEN RaiseIn(H, backend_cls.exc)
                      ELSE run(h1, Newest(h1), Path("image", ".mp4"), FALSE, renders))
    /\ call' = [fn |-> "create_video_from_single_image", args |-> <<job.backend>>,
                at |-> Len(calls)]
    /\ Goto("done")
    /\ UNCHANGED <<ret, job, local>>

\* combine_all that puts each new stream in front
RECURSIVE C17_mut_combine_all(_, _, _, _, _, _)
C17_mut_combine_all(h, backend, stream, video_files, width, height) ==
    IF video_files = <<>> THEN h
    ELSE LET h1 == New(h, backend, Head(video_files), TRUE, TRUE, width, height, Absent)
         IN  C17_mut_combine_all(combine(h1, stream, Newest(h1), TRUE, Absent),
                                 backend, stream, Tail(video_files), width, height)

\* for video_file in video_files: new_stream = backend_cls(...); stream.combine(new_stream)
RECURSIVE combine_all(_, _, _, _, _, _)
combine_all(h, backend, stream, video_files, width, height) ==
    IF video_files = <<>> THEN h
    ELSE LET h1 == New(h, backend, Head(video_files), TRUE, TRUE, width, height, Absent)
         IN  combine_all(combine(h1, stream, Newest(h1), FALSE, Absent),
                         backend, stream, Tail(video_files), width, height)

combine_videos ==
    /\ pc = "start"
    /\ job.fn = "combine_videos"
    /\ LET backend_cls == get_backend(job.backend)
           h1 == New(H, job.backend, job.video_files[1], TRUE, TRUE, job.width, job.height,
                     Absent)
           stream == Newest(h1)
           h2 == combine_all(h1, job.backend, stream, Tail(job.video_files), job.width,
                             job.height)
       IN  \E renders \in BOOLEAN :
               Commit(IF backend_cls.exc # "none" THEN RaiseIn(H, backend_cls.exc)
                      ELSE IF job.video_files = <<>> THEN RaiseIn(H, "AssertionError")
                      ELSE run(h2, stream, Path(job.kind, job.video_files[1].suffix),
                               FALSE, renders))
    /\ call' = [fn |-> "combine_videos", args |-> <<job.backend>>, at |-> Len(calls)]
    /\ Goto("done")
    /\ UNCHANGED <<ret, job, local>>

Next ==
    \/ CV_Start
    \/ CV_VideoSegment
    \/ CV_FinishVideo
    \/ CV_AudioSegment
    \/ CV_FinishAudio
    \/ create_text_video
    \/ create_video_from_single_image
    \/ combine_videos

Spec == Init /\ [][Next]_vars

(***************************************************************************)
(* Literal strings of the unit tests.                                      *)
(***************************************************************************)
Str_0_10 == <<"0", ":", "1", "0">>
Str_1_10 == <<"1", ":", "1", "0">>
Str_1_11 == <<"1", ":", "1", "1">>
Str_2_10 == <<"2", ":", "1", "0">>
Str_4_09 == <<"4", ":", "0", "9">>

(***************************************************************************)
(* Claims.                                                                 *)
(***************************************************************************)

\* C1: get_interval_in_s maps each end "M:SS" of the pair to M*60+SS, for
\* every M >= 0 and 0 <= SS <= 59; ("1:10","1:11") -> (70,71),
\* ("2:10","4:09") -> (130,249), ("0:10","1:11") -> (10,71).
C1_IntervalInSeconds ==
    call.fn = "get_interval_in_s" =>
        /\ \A m \in 0..MaxMin, ss \in 0..59 : \A k \in 1..2 :
               call.args[k] = TimeStr(m, ss) =>
                   ret.exc = "none" /\ ret.val[k] = m * 60 + ss
        /\ call.args = <<Str_1_10, Str_1_11>> => ret = Ret(<<70, 71>>)
        /\ call.args = <<Str_2_10, Str_4_09>> => ret = Ret(<<130, 249>>)
        /\ call.args = <<Str_0_10, Str_1_11>> => ret = Ret(<<10, 71>>)

C1_Witness ==
    /\ call.fn = "get_interval_in_s"
    /\ call.args = <<Str_2_10, Str_4_09>>
    /\ ret = Ret(<<130, 249>>)

\* C2: get_interval_length returns end_s - start_s (> 0) when end_s > start_s
\* and raises the "Invalid interval" ValueError when end_s <= start_s;
\* get_interval_duration returns the same difference for the string form of
\* a valid interval.
C2_IntervalLength ==
    /\ call.fn = "get_interval_length" =>
           LET start_s == call.args[1]
               end_s == call.args[2]
           IN  /\ end_s > start_s => ret = Ret(end_s - start_s) /\ ret.val > 0
               /\ end_s <= start_s => ret.exc = "ValueError"
    /\ call.fn = "get_interval_duration" =>
           \A m1 \in 0..MaxMin, m2 \in 0..MaxMin, s1 \in SecSamples, s2 \in SecSamples :
               (/\ call.args = <<TimeStr(m1, s1), TimeStr(m2, s2)>>
                /\ m2 * 60 + s2 > m1 * 60 + s1)
               => ret = Ret((m2 * 60 + s2) - (m1 * 60 + s1))

C2_Witness ==
    /\ call.fn = "get_interval_length"
    /\ call.args = <<2, 2>>
    /\ ret.exc = "ValueError"

\* C3: get_scaled_size returns (w, h) with w <= max_w and h <= max_h, both
\* obtained from the input with the one factor min(max_w/w_in, max_h/h_in)
\* (each at most one below its exactly scaled value), the input itself when
\* it equals the box, and the six results of the unit test.
WithinTruncation(out, in, n, d) == out * d <= in * n /\ in * n - out * d <= d
C3_ScaledSize ==
    call.fn = "get_scaled_size" =>
        LET w_in == call.args[1]
            h_in == call.args[2]
            max_w == call.args[3]
            max_h == call.args[4]
            w == ret.val[1]
            h == ret.val[2]
        IN  /\ w <= max_w /\ h <= max_h
            /\ \/ /\ max_w * h_in <= max_h * w_in
                  /\ WithinTruncation(w, w_in, max_w, w_in)
                  /\ WithinTruncation(h, h_in, max_w, w_in)
               \/ /\ max_h * w_in <= max_w * h_in
                  /\ WithinTruncation(w, w_in, max_h, h_in)
                  /\ WithinTruncation(h, h_in, max_h, h_in)
            /\ (w_in = max_w /\ h_in = max_h) => ret.val = <<w_in, h_in>>
            /\ call.args = <<800, 600, 400, 300>> => ret.val = <<400, 300>>
            /\ call.args = <<800, 600, 1200, 300>> => ret.val = <<400, 300>>
            /\ call.args = <<800, 600, 800, 1200>> => ret.val = <<800, 600>>
            /\ call.args = <<800, 600, 800, 300>> => ret.val = <<400, 300>>
            /\ call.args = <<400, 300, 800, 700>> => ret.val = <<800, 600>>
            /\ call.args = <<800, 600, 200, 75>> => ret.val = <<100, 75>>

C3_Witness ==
    /\ call.fn = "get_scaled_size"
    /\ call.args = <<800, 600, 200, 75>>
    /\ ret = Ret(<<100, 75>>)

(***************************************************************************)
(* What the claims observe of a stream.                                    *)
(***************************************************************************)
RECURSIVE Pow2(_)
Pow2(n) == IF n <= 0 THEN 1 ELSE 2 * Pow2(n - 1)

\* the handles a stream plays: stream_v and stream_a where it has the
\* channel (FFMpeg), the clip (Moviepy)
Handles(s) ==
    IF s.backend = "ffmpeg"
    THEN (IF s.has_video THEN {s.stream_v} ELSE {}) \cup (IF s.has_audio THEN {s.stream_a} ELSE {})
    ELSE {s.clip}

\* the backend calls named op made from position from of the call log on
CallsOf(op, from) == {i \in (from + 1)..Len(calls) : calls[i].op = op}

VideoOnlyOps == {"scale_video", "draw_text", "draw_text_in_box", "add_spacer"}
AudioOnlyOps == {"add_silence", "replace_audio_by_beep", "normalize_audio"}

\* C4: a trim call with end_s <= start_s raises instead of producing a
\* trimmed stream, in both backends and in clip assembly: every trim call of
\* the call log with end_s <= start_s ended in an exception.
C4_TrimRejectsEmptyInterval ==
    \A i \in 1..Len(calls) :
        (calls[i].op = "trim" /\ calls[i].args[2] <= calls[i].args[1])
        => calls[i].exc # "none"

\* C5: repeat_stream(stream, repetitions) issues no repeat() call for 1,
\* exactly repetitions/2 repeat() calls for an even value, and for every
\* other value raises RuntimeError without any repeat() call.
C5_RepeatStream ==
    call.fn = "repeat_stream" =>
        LET repetitions == call.args[1]
            issued == Cardinality(CallsOf("repeat", call.at))
        IN  /\ repetitions = 1 => issued = 0 /\ exc = "none"
            /\ (repetitions # 1 /\ repetitions % 2 = 0) =>
                   issued = repetitions \div 2 /\ exc = "none"
            /\ (repetitions # 1 /\ repetitions % 2 # 0) =>
                   issued = 0 /\ exc = "RuntimeError"

C5_Witness ==
    /\ call.fn = "repeat_stream"
    /\ call.args = <<4>>
    /\ Cardinality(CallsOf("repeat", call.at)) = 2
    /\ exc = "none"

\* C6: n repeat() calls on a stream of duration d opened from a file leave a
\* stream of duration 2^n * d that plays the original 2^n times, for a
\* video-bearing and for an audio-only stream, in both backends.
C6_RepeatDoubles ==
    /\ call.fn = "repeat" => exc = "none"
    /\ (pc = "open" /\ Len(streams) >= 1) =>
           LET n == Len(calls) - Len(streams)
               d == job.opened[1].dur
           IN  \A m \in Handles(streams[1]) :
                   /\ m.dur = Pow2(n) * d
                   /\ Len(m.content) = Pow2(n)
                   /\ m.audio # <<>> => m.audio[1].dur = Pow2(n) * d

C6_Witness ==
    /\ pc = "open"
    /\ call.fn = "repeat"
    /\ Len(calls) - Len(streams) = 2
    /\ streams[1].backend = "moviepy"
    /\ ~streams[1].has_video
    /\ job.opened[1].dur = 2
    /\ streams[1].clip.dur = 8

\* C7: combine(a, b) without crossfade yields duration(a) + duration(b);
\* with crossfade_duration = c > 0 it yields duration(a) + duration(b) - c,
\* the second clip starting c before the first ends; for both values of
\* other_first, for video-bearing and audio-only streams, in both backends.
C7_CombineDuration ==
    (/\ call.fn = "combine"
     /\ call.at = Len(streams)
     /\ job.opened[1].has_video = job.opened[2].has_video
     /\ job.opened[1].has_audio = job.opened[2].has_audio) =>
        LET other_first == call.args[2]
            c == IF call.args[3] = Absent THEN 0 ELSE call.args[3][1]
            first == IF other_first THEN job.opened[2].dur ELSE job.opened[1].dur
            total == job.opened[1].dur + job.opened[2].dur
        IN  /\ exc = "none"
            /\ \A m \in Handles(streams[1]) : m.dur = total - c
            /\ c > 0 => calls[Len(calls)].args[4] = first - c

\* C8: combine fails whenever self and other disagree on has_video or on
\* has_audio, for every crossfade_duration and every other_first.
C8_CombineNeedsSameChannels ==
    (/\ call.fn = "combine"
     /\ \/ streams[1].has_video # streams[2].has_video
        \/ streams[1].has_audio # streams[2].has_audio)
    => exc # "none"

\* C10: scale_video, draw_text and draw_text_in_box on a stream with
\* has_video = false, and add_silence and replace_audio_by_beep on a stream
\* with has_audio = false, raise in both backends.
C10_CapabilityViolationRaises ==
    \A i \in 1..Len(calls) :
        (\/ calls[i].op \in {"scale_video", "draw_text", "draw_text_in_box"}
            /\ ~calls[i].has_video
         \/ calls[i].op \in {"add_silence", "replace_audio_by_beep"}
            /\ ~calls[i].has_audio)
        => calls[i].exc # "none"

\* C9: in runs of create_video, create_text_video,
\* create_video_from_single_image and combine_videos no stream with
\* has_video = false receives scale_video, draw_text, draw_text_in_box or
\* add_spacer, and no stream with has_audio = false receives add_silence,
\* replace_audio_by_beep or normalize_audio.
C9_OperationsMatchChannels ==
    \A i \in 1..Len(calls) :
        /\ calls[i].op \in VideoOnlyOps => calls[i].has_video
        /\ calls[i].op \in AudioOnlyOps => calls[i].has_audio

C9_Witness ==
    /\ job.fn = "create_video"
    /\ job.backend = "moviepy"
    /\ pc = "done"
    /\ \A op \in VideoOnlyOps \cup AudioOnlyOps :
           \E i \in 1..Len(calls) : calls[i].op = op

\* the audio a stream plays: stream_a (FFMpeg); the clip itself if it is an
\* audio clip, else the audio set on it (Moviepy)
AudioOf(s) ==
    IF s.backend = "ffmpeg" THEN <<s.stream_a>>
    ELSE IF s.clip.kind = "audio" THEN <<Track(s.clip.dur, s.clip.content)>>
    ELSE s.clip.audio

\* C11: add_audio(other) raises unless self.has_video and other.has_audio;
\* when it returns, self plays other's audio, self.has_audio is true and
\* self.has_video, width and height are as before, in both backends.
C11_AddAudio ==
    (call.fn = "add_audio" /\ pc = "done") =>
        LET self == streams[1]
            other == streams[2]
            allowed == job.opened[1].has_video /\ job.opened[2].has_audio
        IN  /\ ~allowed => exc = "AssertionError"
            /\ allowed =>
                /\ exc = "none"
                /\ self.has_audio
                /\ AudioOf(self) = AudioOf(other)
                /\ self.has_video = job.opened[1].has_video
                /\ self.width = DefaultWidth /\ self.height = DefaultHeight

C11_Witness ==
    /\ call.fn = "add_audio"
    /\ pc = "done"
    /\ exc = "none"
    /\ streams[1].backend = "ffmpeg"
    /\ ~job.opened[1].has_audio
    /\ streams[1].has_audio
    /\ ~job.opened[2].has_video


\* C12: normalize_audio() never errors on an audio-bearing stream of either
\* backend, so the audio finishing of filter_stream_audios completes with
\* every backend: each normalize_audio call on a stream with has_audio
\* returned.
C12_NormalizeAudioNeverErrors ==
    \A i \in 1..Len(calls) :
        (calls[i].op = "normalize_audio" /\ calls[i].has_audio)
        => calls[i].exc = "none"


\* C13: clip assembly finds every operation, keyword argument and factory it
\* invokes in both backends: no run of create_video or create_text_video,
\* with backend 'ffmpeg' as with 'moviepy', ends in an unsupported-operation
\* (AttributeError) or unexpected-argument (TypeError) error.
C13_BackendsImplementAssembly ==
    job.fn \in {"create_video", "create_text_video"} =>
        /\ exc \notin {"TypeError", "AttributeError"}
        /\ \A i \in 1..Len(calls) : calls[i].exc \notin {"TypeError", "AttributeError"}


(***************************************************************************)
(* What the claims observe of the disk.                                    *)
(***************************************************************************)
Occurs(event) == \E i \in 1..Len(disk.events) : disk.events[i] = event
Precedes(a, b) ==
    \E i \in 1..Len(disk.events), j \in 1..Len(disk.events) :
        i < j /\ disk.events[i] = a /\ disk.events[j] = b
\* the run calls of the call log
Runs == {i \in 1..Len(calls) : calls[i].op = "run"}

\* C14: in create_video and create_text_video run is called with dry_run =
\* true iff the output file exists and use_cached_video_files is true, and
\* then the file is neither deleted nor overwritten; a file that exists with
\* caching disabled is deleted and then rendered; a file that does not
\* exist is rendered.
C14_CachingPolicy ==
    job.fn \in {"create_video", "create_text_video"} =>
        LET hit == job.exists /\ job.use_cached_video_files
            returned == \E i \in Runs : calls[i].exc = "none"
        IN  /\ \A i \in Runs : calls[i].args[1] = hit
            /\ hit => disk.out = "old" /\ ~Occurs("unlink") /\ ~Occurs("copy")
            /\ (~hit /\ Runs # {}) => Occurs("write")
            /\ (~hit /\ returned) => disk.out = "new"
            /\ (~hit /\ job.exists /\ Runs # {}) => Precedes("unlink", "write")

C14_Witness ==
    /\ job.fn = "create_video"
    /\ job.exists /\ job.use_cached_video_files
    /\ pc = "done"
    /\ \E i \in Runs : calls[i].exc = "none" /\ calls[i].args[1]
    /\ disk.out = "old"


\* C15: after Moviepy.run returns (dry_run true or false) or leaves with an
\* exception of the render, every reader of reader_refs has been closed
\* (close() was called on it, whether or not that close() raised) and
\* reader_refs is empty.  The stream was opened from a file, so its reader
\* is the stream's own clip.
C15_RunReleasesReaders ==
    (call.fn = "run" /\ streams[1].backend = "moviepy") =>
        /\ streams[1].reader_refs = <<>>
        /\ 1 \in disk.closed \cup disk.close_raised


\* C16: run renders into a temporary directory: if the render raises,
\* nothing is copied to the final path; the temporary directory, once made,
\* is removed on every exit path; when the render succeeds the artifact is
\* written, then copied to the final path, then the directory is removed.
C16_RunPublishesOnSuccess ==
    call.fn = "run" =>
        LET dry_run == call.args[1]
        IN  /\ exc # "none" => ~Occurs("copy") /\ disk.out # "new"
            /\ Occurs("mkdtemp") =>
                   /\ disk.tmp = "removed"
                   /\ disk.events[Len(disk.events)] = "rmtree"
            /\ ~Occurs("mkdtemp") => disk.tmp = "none"
            /\ (exc = "none" /\ ~dry_run) =>
                   /\ Precedes("mkdtemp", "write")
                   /\ Precedes("write", "copy")
                   /\ Precedes("copy", "rmtree")
                   /\ disk.out = "new"

C16_Witness ==
    /\ call.fn = "run"
    /\ streams[1].backend = "ffmpeg"
    /\ exc = "Error"
    /\ disk.events = <<"mkdtemp", "write", "rmtree">>
    /\ disk.out = "old"


\* C17: combine_videos over a non-empty list f1..fn opens each file as an
\* audio+video stream and combines them into the first stream, whose content
\* is then f1, ..., fn in list order, each once; the output file takes the
\* extension of f1; an empty list is rejected.
C17_CombineVideosInOrder ==
    (job.fn = "combine_videos" /\ pc # "start") =>
        LET n == Len(job.video_files)
            opened == {i \in 1..Len(calls) : calls[i].op = "__init__"}
        IN  /\ n = 0 => exc = "AssertionError" /\ streams = <<>>
            /\ n > 0 =>
                /\ Len(streams) = n
                /\ \A i \in opened : calls[i].has_video /\ calls[i].has_audio
                /\ Cardinality(opened) = n
                /\ Cardinality(CallsOf("combine", 0)) = n - 1
                /\ \A i \in CallsOf("combine", 0) : calls[i].target = 1 /\ calls[i].exc = "none"
                /\ \A m \in Handles(streams[1]) :
                       m.content = [i \in 1..n |-> job.video_files[i].name]
                /\ exc = "none" => disk.file_name_out.suffix = job.video_files[1].suffix

C17_Witness ==
    /\ job.fn = "combine_videos"
    /\ pc = "done"
    /\ Len(job.video_files) = 2
    /\ job.video_files[1].name = "unit1"
    /\ streams[1].backend = "moviepy"
    /\ streams[1].clip.content = <<"unit1", "title">>
    /\ disk.file_name_out.suffix = ".mkv"
    /\ disk.out = "new"


\* C18: every fade_in_and_out(duration_s, total_length_s) call that
\* filter_stream_video, filter_stream_audio and create_text_video issue has
\* duration_s * 2 <= total_length_s.
C18_CallersGuardFade ==
    job.fn \in {"create_video", "create_text_video"} =>
        \A i \in 1..Len(calls) :
            calls[i].op = "fade_in_and_out" => calls[i].args[1] * 2 <= calls[i].args[2]


\* C19: get_sources raises for a clip whose source index is outside
\* 0 .. len(sources) - 1, negative indices included: create_video ends with
\* an exception, before any stream is opened, whenever a clip of the unit
\* has such an index.
C19_UnresolvableSourceIsFatal ==
    (job.fn = "create_video" /\ pc # "start") =>
        LET unresolvable(media) ==
                \E i \in 1..Len(Clips(job.question, job.kind, media)) :
                    Clips(job.question, job.kind, media)[i].source
                        \notin 0..(Len(job.question.sources) - 1)
        IN  (unresolvable("video") \/ unresolvable("audio")) =>
                exc # "none" /\ streams = <<>>


\* the draw_text calls without an interval (those of the answer texts) that
\* returned on the stream target
AnswerTextCalls(target) ==
    {i \in 1..Len(calls) : /\ calls[i].op = "draw_text"
                           /\ calls[i].target = target
                           /\ calls[i].exc = "none"
                           /\ calls[i].args[3] = Absent}

\* C20: in create_video, a top banner is drawn only for an answer unit, is
\* stationary and holds the first two answer texts (or the only one) joined
\* with " - "; the remaining texts are drawn one draw_text call each, only
\* for an answer unit, at height fractions that are evenly spaced and centred
\* around 0.5: on each stream the fractions, in tenths, mirror each other
\* about 5 and consecutive ones are the same distance apart; a question unit
\* gets neither the top banner nor the texts.
C20_AnswerTextsBannerAndCentre ==
    job.fn = "create_video" =>
        \A i \in 1..Len(calls) :
            LET c == calls[i]
                texts == job.answer_texts[1]
                mine == AnswerTextCalls(c.target)
            IN  /\ (c.op = "draw_text_in_box" /\ c.exc = "none" /\ c.args[4]) =>
                       /\ job.kind = "answer"
                       /\ c.args[1] = join(<<" - ">>, Prefix(texts, 2))
                       /\ ~c.args[3]
                /\ i \in mine =>
                       /\ job.kind = "answer"
                       /\ Cardinality(mine) = Len(Suffix(texts, 2))
                       /\ \E k \in 1..Len(Suffix(texts, 2)) : c.args[1] = Suffix(texts, 2)[k]
                       /\ \E j \in mine : calls[j].args[2] = 10 - c.args[2]
                       /\ \A j \in mine, k \in mine :
                              (j + 1 \in mine /\ k + 1 \in mine) =>
                                  calls[j + 1].args[2] - calls[j].args[2]
                                      = calls[k + 1].args[2] - calls[k].args[2]


\* the x, in pixels, of the text that the returned draw_text_in_box call i
\* of the call log drew, at t seconds, for a text text_w pixels wide
BoxTextX(i, text_w, t) ==
    LET s == streams[calls[i].target]
    IN  IF s.backend = "ffmpeg"
        THEN FFMpeg_x_location_text(s.width, calls[i].args[2], calls[i].args[3], text_w, t)
        ELSE Moviepy_txt_position(s.clip.size[1], calls[i].args[2], calls[i].args[3], t)

\* the width of the frame the call i drew on
BoxFrameWidth(i) ==
    LET s == streams[calls[i].target]
    IN  IF s.backend = "ffmpeg" THEN s.width ELSE s.clip.size[1]

\* the draw_text_in_box calls that returned on a stream with video
BoxCalls ==
    {i \in 1..Len(calls) : /\ calls[i].op = "draw_text_in_box"
                           /\ calls[i].exc = "none"
                           /\ calls[i].has_video}

\* C21: a text drawn by draw_text_in_box with move = true is at the right
\* edge of the frame at t = 0, at the left edge (within the left margin) at
\* t = length, and never moves to the right in between, in both backends;
\* with move = false it stays at one x within the left margin whatever t
\* and the width of the text are.
C21_BoxTextScrollsRightToLeft ==
    job.fn = "backend" =>
        \A i \in BoxCalls, text_w \in TextWidths :
            LET length == calls[i].args[2]
            IN  IF calls[i].args[3]
                THEN /\ BoxTextX(i, text_w, 0) = BoxFrameWidth(i)
                     /\ BoxTextX(i, text_w, length) <= TxtLeftMargin
                     /\ \A t \in 0..length, u \in 0..length :
                            t <= u => BoxTextX(i, text_w, t) >= BoxTextX(i, text_w, u)
                ELSE \A t \in 0..length :
                         /\ BoxTextX(i, text_w, t) <= TxtLeftMargin
                         /\ \A other_w \in TextWidths :
                                BoxTextX(i, other_w, 0) = BoxTextX(i, text_w, t)



\* the video handle of a stream
VideoOf(s) == IF s.backend = "ffmpeg" THEN s.stream_v ELSE s.clip

\* a returned scale_video() on a stream with video has just been made
Scaled == job.fn = "backend" /\ call.fn = "scale_video" /\ exc = "none" /\ streams[1].has_video

\* C22: right after a returned scale_video() on a stream with video the
\* frame size is (width, height), and a scale_video() that directly follows
\* it is a no-op: the stream keeps its handles as they were, with their
\* size, duration and filters, in both backends.
C22_ScaleVideoIdempotent ==
    /\ [](Scaled => VideoOf(streams[1]).size = <<streams[1].width, streams[1].height>>)
    /\ [][(Scaled /\ call'.fn = "scale_video" /\ call'.at = Len(calls)) =>
              streams' = streams]_vars



\* the operation op, n times in a row
OpTimes(op, n) == [i \in 1..n |-> op]

IsPrefix(a, b) == Len(a) <= Len(b) /\ a = SubSeq(b, 1, Len(a))

\* the calls the loop iteration that has just ended made, in order
IterationCalls == SubSeq(calls, call.at + 1, Len(calls))
IterationOps == [k \in 1..Len(IterationCalls) |-> IterationCalls[k].op]

\* the operations the claim gives a video segment, in order
VideoSegmentOrder(video_info, kind, answer_texts, first) ==
    <<"__init__", "trim">>
    \o (IF video_info.reverse THEN <<"reverse">> ELSE <<>>)
    \o <<"scale_video">>
    \o (IF kind = "answer"
        THEN <<"draw_text_in_box">>
             \o OpTimes("draw_text", Len(Suffix(answer_texts, 2)) + Len(video_info.events))
        ELSE <<>>)
    \o <<"fade_in_and_out">>
    \o (IF first THEN <<>> ELSE <<"combine">>)

\* the operations the claim gives an audio segment, in order
AudioSegmentOrder(audio_info, first) ==
    <<"__init__">>
    \o OpTimes("replace_audio_by_beep", Len(audio_info.events))
    \o <<"trim">>
    \o (IF audio_info.reverse THEN <<"reverse">> ELSE <<>>)
    \o <<"fade_in_and_out">>
    \o (IF first THEN <<>> ELSE <<"combine">>)

\* the iteration's calls are made on the segment's own stream, but for the
\* combine, which the accumulator receives with the segment as other, the
\* segment coming second
OnSegment(accumulator) ==
    \A k \in 1..Len(IterationCalls) :
        IF IterationCalls[k].op = "combine"
        THEN /\ IterationCalls[k].target = accumulator
             /\ IterationCalls[k].args[1] = IterationCalls[1].target
             /\ ~IterationCalls[k].args[2]
             /\ accumulator < IterationCalls[1].target
        ELSE IterationCalls[k].target = IterationCalls[1].target

\* C23: an iteration of create_video's video loop makes the calls open, trim,
\* reverse (if flagged), scale_video, banner and texts (answer only),
\* fade_in_and_out and then combine into the accumulator (but for the first
\* segment), in this order and no others; an iteration of the audio loop makes
\* open, replace_audio_by_beep per beep event, trim, reverse (if flagged),
\* fade_in_and_out and then combine.  An iteration that an exception ends
\* has made a prefix of these calls.
C23_SegmentOperationOrder ==
    /\ (job.fn = "create_video" /\ call.fn = "video_segment") =>
           LET video_id == call.args[1]
               order == VideoSegmentOrder(
                            Clips(job.question, job.kind, "video")[video_id + 1], job.kind,
                            job.answer_texts[(video_id % Len(job.answer_texts)) + 1],
                            video_id = 0)
           IN  /\ IF exc = "none" THEN IterationOps = order ELSE IsPrefix(IterationOps, order)
               /\ OnSegment(local.stream_videos)
    /\ (job.fn = "create_video" /\ call.fn = "audio_segment") =>
           LET audio_id == call.args[1]
               order == AudioSegmentOrder(
                            Clips(job.question, job.kind, "audio")[audio_id + 1], audio_id = 0)
           IN  /\ IF exc = "none" THEN IterationOps = order ELSE IsPrefix(IterationOps, order)
               /\ OnSegment(local.stream_audios)

\* a second answer video segment, reversed, was filtered and combined, and a
\* second audio segment is reached later in such runs
C23_Witness ==
    /\ job.fn = "create_video" /\ call.fn = "video_segment" /\ exc = "none"
    /\ job.kind = "answer"
    /\ call.args[1] = 1
    /\ Clips(job.question, job.kind, "video")[2].reverse
    /\ IterationOps = <<"__init__", "trim", "reverse", "scale_video", "draw_text_in_box",
                        "fade_in_and_out", "combine">>


\* the operations the accumulator received in the step that has just ended,
\* the combine that add_spacer makes inside the filter-graph backend left out
AccumulatorOps(accumulator) ==
    LET RECURSIVE Ops(_)
        Ops(cs) == IF cs = <<>> THEN <<>>
                   ELSE IF Head(cs).target = accumulator /\ Head(cs).op # "combine"
                   THEN <<Head(cs).op>> \o Ops(Tail(cs))
                   ELSE Ops(Tail(cs))
    IN  Ops(IterationCalls)

\* the names a spacer's frames have in the content of a handle
SpacerContent == {"spacer", "still_black"}

\* create_video adds a spacer to this unit
WantsSpacer == job.spacer_txt # EmptyStr /\ (job.kind = "question" \/ job.is_example)

\* C24: filter_stream_videos draws the scrolling label on the accumulator
\* first, over total_duration, then repeats it, then adds the spacer: the
\* accumulator receives draw_text_in_box, then the repeat calls, then
\* add_spacer, a prefix of these if an exception ends the step.  repeat is
\* called only for kind "question", an answer unit has repetitions = 1, and
\* add_spacer is called exactly when spacer_txt is not empty and the unit is
\* a question or an example.  Afterwards the spacer is the first item of the
\* video's content and occurs nowhere else in it.
C24_UnitVideoFinishingOrder ==
    (job.fn = "create_video" /\ call.fn = "filter_stream_videos" /\ call.args[1] # 0) =>
        LET acc == call.args[1]
            ops == AccumulatorOps(acc)
            content == VideoOf(streams[acc]).content
            tail == IF WantsSpacer THEN <<"add_spacer">> ELSE <<>>
        IN  /\ job.kind = "answer" => local.repetitions = 1
            /\ \E n \in 0..MaxRep :
                   /\ n > 0 => job.kind = "question"
                   /\ LET order == <<"draw_text_in_box">> \o OpTimes("repeat", n) \o tail
                      IN  IF exc = "none" THEN ops = order ELSE IsPrefix(ops, order)
            /\ IterationCalls # <<>> =>
                   /\ IterationCalls[1].op = "draw_text_in_box"
                   /\ IterationCalls[1].args[2] = local.total_duration
                   /\ IterationCalls[1].args[3] /\ ~IterationCalls[1].args[4]
            /\ exc = "none" =>
                   \A k \in 1..Len(content) :
                       content[k] \in SpacerContent <=> (WantsSpacer /\ k = 1)

\* a question unit was labelled, repeated twice and given a spacer
C24_Witness ==
    /\ job.fn = "create_video" /\ call.fn = "filter_stream_videos" /\ exc = "none"
    /\ AccumulatorOps(call.args[1])
           = <<"draw_text_in_box", "repeat", "repeat", "add_spacer">>
    /\ Len(VideoOf(streams[call.args[1]]).content) = 5


\* every video clip of the unit ends within its source file
VideoClipsWithinSources ==
    \A i \in 1..Len(Clips(job.question, job.kind, "video")) :
        get_interval_in_s(Clips(job.question, job.kind, "video")[i].interval).val[2]
            <= local.video_files[i].dur

\* C25: when the video loop of create_video has ended and the label is
\* about to be drawn, the total_duration it has summed up (the label's
\* scroll length) is the duration of the accumulated video stream, for
\* clips that lie within their source files.
C25_LabelLengthIsStreamDuration ==
    (/\ job.fn = "create_video"
     /\ pc = "video"
     /\ local.video_id = Len(Clips(job.question, job.kind, "video"))
     /\ local.stream_videos # 0
     /\ VideoClipsWithinSources) =>
        local.total_duration = VideoOf(streams[local.stream_videos]).dur


\* verify_json_input accepts the unit's clips: the video and the audio
\* intervals last equally long in total
EqualRuntimes ==
    total_duration(Clips(job.question, job.kind, "video"))
        = total_duration(Clips(job.question, job.kind, "audio"))

\* create_video has called video.add_audio(audio) and the call returned
AudioAdded ==
    /\ job.fn = "create_video"
    /\ call.fn = "filter_stream_audios"
    /\ \E k \in 1..Len(IterationCalls) :
           IterationCalls[k].op = "add_audio" /\ IterationCalls[k].exc = "none"

\* C26: for a unit that verify_json_input accepts, the video that add_audio
\* returned on lasts as long as the audio it was given, whatever the
\* repetitions, the spacer and the crossfade durations are.
C26_AudioVideoAligned ==
    (AudioAdded /\ EqualRuntimes) =>
        LET s == streams[local.stream_videos]
        IN  AudioOf(s) # <<>> /\ AudioOf(s)[1].dur = VideoOf(s).dur


\* the readers a stream's reader_refs holds
ReaderRefs(i) == {streams[i].reader_refs[k] : k \in 1..Len(streams[i].reader_refs)}

\* run has been called on stream i
RunOn(i) == \E k \in 1..Len(calls) : calls[k].op = "run" /\ calls[k].target = i

\* the last call of the log is a run that returned
RunReturned == calls # <<>> /\ calls[Len(calls)].op = "run" /\ calls[Len(calls)].exc = "none"

\* C27: in create_video and combine_videos on the clip-object backend, whose
\* streams are all opened from media files and so open one reader each:
\* a stream holds its own reader until it is run; after a combine or
\* add_audio that returned, the target's reader_refs holds every reader of
\* the other stream's reader_refs (so, step by step, those of every stream
\* absorbed into it); when the run of the final stream has returned, close()
\* has been called on every reader opened for the unit, each reader whose
\* close() does not raise is closed, a close() that raises leaves the run
\* without exception, and the final stream's reader_refs is empty.
C27_ReadersTrackedAndClosed ==
    (job.fn \in {"create_video", "combine_videos"} /\ job.backend = "moviepy") =>
        /\ \A i \in 1..Len(streams) : ~RunOn(i) => i \in ReaderRefs(i)
        /\ \A k \in 1..Len(calls) :
               (/\ calls[k].op \in {"combine", "add_audio"}
                /\ calls[k].exc = "none"
                /\ ~RunOn(calls[k].target)) =>
                   ReaderRefs(calls[k].args[1]) \subseteq ReaderRefs(calls[k].target)
        /\ RunReturned =>
               /\ exc = "none"
               /\ streams[calls[Len(calls)].target].reader_refs = <<>>
               /\ disk.closed = (1..Len(streams)) \ disk.failing
               /\ disk.close_raised = (1..Len(streams)) \cap disk.failing

\* a unit of two video segments and one audio segment was run; the close()
\* of the first reader raised and the two other readers were closed
C27_Witness ==
    /\ job.fn = "create_video" /\ job.backend = "moviepy"
    /\ RunReturned /\ exc = "none" /\ pc = "done"
    /\ Len(streams) = 3
    /\ disk.close_raised = {1}
    /\ disk.closed = {2, 3}


\* the returned combine and add_audio calls before call k of the log that
\* took stream i as other
AbsorbedBefore(i, k) ==
    \E j \in 1..(k - 1) : /\ calls[j].op \in {"combine", "add_audio"}
                          /\ calls[j].exc = "none"
                          /\ calls[j].args[1] = i

\* C28: in create_video, create_text_video, combine_videos and
\* create_video_from_single_image, with the add_spacer and add_silence the
\* backends make inside, no call is made on a stream that an earlier combine
\* or add_audio took as other, and no stream is given as other twice.
C28_NoUseAfterAbsorption ==
    job.fn # "backend" =>
        \A k \in 1..Len(calls) :
            /\ calls[k].target # 0 =>
                   ~calls[k].absorbed /\ ~AbsorbedBefore(calls[k].target, k)
            /\ calls[k].op \in {"combine", "add_audio"} =>
                   ~AbsorbedBefore(calls[k].args[1], k)

\* the audio stream was absorbed by add_audio, two segments by combine, and
\* the accumulator was run afterwards
C28_Witness ==
    /\ job.fn = "create_video" /\ pc = "done" /\ exc = "none"
    /\ RunReturned
    /\ Cardinality({i \in 1..Len(streams) : streams[i].absorbed}) >= 2
    /\ ~streams[calls[Len(calls)].target].absorbed


\* C29: repeat_stream(stream, r) that returns for r >= 1 leaves the stream
\* r times as long as it was, in every handle of the stream: r times the
\* duration the earlier repeat() calls had given the opened file.
C29_RepetitionsTimesDuration ==
    (job.fn = "backend" /\ call.fn = "repeat_stream" /\ exc = "none" /\ call.args[1] >= 1) =>
        LET before == Pow2(call.at - Len(streams)) * job.opened[1].dur
        IN  \A m \in Handles(streams[1]) : m.dur = call.args[1] * before


\* C30: after a Moviepy.combine of two opened streams with crossfade_duration
\* c > 0 that returned, the duration assigned to the combined clip is not
\* negative and is the time at which the second clip ends: the start the
\* code gave it, max(0, d0 - c), plus its duration d1.
C30_CrossfadeEndsWithSecondClip ==
    (/\ job.fn = "backend"
     /\ call.fn = "combine"
     /\ call.at = Len(streams)
     /\ exc = "none"
     /\ streams[1].backend = "moviepy"
     /\ call.args[3] # Absent) =>
        LET c == call.args[3][1]
            d0 == job.opened[IF call.args[2] THEN 2 ELSE 1].dur
            d1 == job.opened[IF call.args[2] THEN 1 ELSE 2].dur
        IN  c > 0 =>
                /\ calls[Len(calls)].args[4] = Max(0, d0 - c)
                /\ streams[1].clip.dur >= 0
                /\ streams[1].clip.dur = calls[Len(calls)].args[4] + d1

=============================================================================
